---- MODULE Spec2Model ----
(***************************************************************************)
(* Model of the realtime reconciliation engine of Client (src/client.js):  *)
(* the pre-ready buffer and its replay in login, the patch applicator of   *)
(* handleRealtimeReceive, the push categorizer of handleFbnsReceive and    *)
(* the entity cache behind fetchChat / fetchUser.                          *)
(*                                                                         *)
(* One step of the model is one turn of the JavaScript event loop: the     *)
(* synchronous part of a handler followed by the promise jobs it queued,   *)
(* run in FIFO order until the job queue is empty.  A network request is   *)
(* a task in `inflight`; its completion is a later turn of its own.        *)
(*                                                                         *)
(* Chats are objects: `heap` holds every Chat ever constructed, and the    *)
(* caches map a thread id to an index of `heap` (0 = no entry).            *)
(*                                                                         *)
(* Inputs are taken as section 6 of the specification gives them: the      *)
(* payload of a patch-topic delivery is a well-formed array of raw         *)
(* messages; only the nested `value` string of an operation may fail to    *)
(* decode.                                                                 *)
(***************************************************************************)
EXTENDS Integers, Sequences, FiniteSets, TLC

(***************************************************************************)
(* Bounds                                                                  *)
(***************************************************************************)
MaxDeliveries == 2
MaxLogins == 2

(***************************************************************************)
(* Identifiers                                                             *)
(***************************************************************************)
ThreadIds == {"t1", "t2"}
UserIds == {"u1", "u2", "u3"}
MsgIds == {"m1", "m2"}
Names == {"n1", "n2"}
PatchTopic == "146"
OtherTopic == "88"

(***************************************************************************)
(* Sequence helpers                                                        *)
(***************************************************************************)
Range(q) == {q[i] : i \in 1..Len(q)}

Remove(q, i) == SubSeq(q, 1, i - 1) \o SubSeq(q, i + 1, Len(q))

\* Array.prototype.find / Collection.find: the first element satisfying the
\* test, in iteration order; "" stands for undefined.
FindFirst(q, Test(_)) ==
    IF \E i \in 1..Len(q) : Test(q[i])
    THEN q[CHOOSE i \in 1..Len(q) : Test(q[i]) /\ \A j \in 1..(i - 1) : ~Test(q[j])]
    ELSE ""

(***************************************************************************)
(* Raw values of patch operations.  `value` is a string: the text of a     *)
(* JSON object (kind "thread" or "message", held as the object it          *)
(* encodes), a bare identifier (kind "text") or text that does not decode  *)
(* (kind "bad").  All four share one record shape.                         *)
(***************************************************************************)
Value(kind, name, users, calling, pending, item_id, item_type, likes, valid, text) ==
    [kind |-> kind, name |-> name, users |-> users, calling |-> calling,
     pending |-> pending, item_id |-> item_id, item_type |-> item_type,
     likes |-> likes, valid |-> valid, text |-> text]

ThreadValue(name, users, calling, pending) ==
    Value("thread", name, users, calling, pending, "", "", <<>>, FALSE, "")

MessageValue(item_id, item_type, likes, valid) ==
    Value("message", "", <<>>, FALSE, FALSE, item_id, item_type, likes, valid, "")

TextValue(text) ==
    Value("text", "", <<>>, FALSE, FALSE, "", "", <<>>, FALSE, text)

BadValue == Value("bad", "", <<>>, FALSE, FALSE, "", "", <<>>, FALSE, "{")

\* JSON.parse(data.value) throws on anything that is not the text of a JSON
\* object here: a bare identifier such as m1 is not JSON either.
JSONparseThrows(value) == value.kind \notin {"thread", "message"}

(***************************************************************************)
(* Paths, as their slash-separated segments                                *)
(***************************************************************************)
ThreadPath(t) == <<"direct_v2", "inbox", "threads", t>>
MessagePath(t, m) == <<"direct_v2", "threads", t, "items", m>>
AdminPath(t, u) == <<"direct_v2", "threads", t, "admin_user_ids", u>>
SeenPath(t, u) == <<"direct_v2", "threads", t, "participants", u, "has_seen">>
UnseenCountPath == <<"direct_v2", "inbox", "unseen_count">>

matchInboxThreadPath(path) ==
    /\ Len(path) = 4
    /\ SubSeq(path, 1, 3) = <<"direct_v2", "inbox", "threads">>
    /\ path[4] \in ThreadIds

matchMessagePath(path) ==
    /\ Len(path) = 5
    /\ SubSeq(path, 1, 2) = <<"direct_v2", "threads">>
    /\ path[3] \in ThreadIds
    /\ path[4] = "items"
    /\ path[5] \in MsgIds

matchAdminPath(path) ==
    /\ Len(path) = 5
    /\ SubSeq(path, 1, 2) = <<"direct_v2", "threads">>
    /\ path[3] \in ThreadIds
    /\ path[4] = "admin_user_ids"
    /\ path[5] \in UserIds

\* the identifiers the matchers extract
InboxThreadID(path) == path[4]
PathThreadID(path) == path[3]
AdminPathUserID(path) == path[5]

(***************************************************************************)
(* Entities                                                                *)
(***************************************************************************)
NoMessages == [m \in {} |-> [likes |-> <<>>, valid |-> FALSE]]

\* new Message(client, threadID, payload)
NewMessage(payload) == [likes |-> payload.likes, valid |-> payload.valid]

\* Message._patch(payload): the like list is rebuilt from the payload
MessagePatch(message, payload) == [message EXCEPT !.likes = payload.likes]

\* Util.isMessageValid(message)
isMessageValid(message) == message.valid

\* Chat._patch(payload): the payload's fields overwrite the chat's; the
\* member collection is rebuilt, the message mapping and the admin list stay.
ChatPatch(chat, payload) ==
    [chat EXCEPT !.name = payload.name, !.users = payload.users,
                 !.calling = payload.calling, !.pending = payload.pending]

\* new Chat(client, threadID, payload)
NewChat(threadID, payload) ==
    [id |-> threadID, name |-> payload.name, users |-> payload.users,
     calling |-> payload.calling, pending |-> payload.pending,
     adminUserIDs |-> <<>>, messages |-> NoMessages]

(***************************************************************************)
(* Inbound events, replay-queue entries and emitted events                 *)
(***************************************************************************)
\* a patch operation {op, path, value}
Op(op, path, value) == [op |-> op, path |-> path, value |-> value]

\* a push payload {pushCategory, sourceUserId?, actionParams?.id}; "" = absent
Push(category, sourceUserId, actionId) ==
    [pushCategory |-> category, sourceUserId |-> sourceUserId, actionId |-> actionId]

NoData == Push("", "", "")

\* ['realtime', topic, payload]: payload is a sequence of raw messages, each
\* the sequence of its data operations
RealtimeEntry(topic, payload) ==
    [type |-> "realtime", topic |-> topic, payload |-> payload, data |-> NoData]

\* ['fbns', data]
FbnsEntry(data) == [type |-> "fbns", topic |-> "", payload |-> <<>>, data |-> data]

NoEntry == [type |-> "none", topic |-> "", payload |-> <<>>, data |-> NoData]

\* the threads a pending-list request answered with
ListEntry(threads) == [type |-> "list", topic |-> "", payload |-> threads, data |-> NoData]

\* one emit(): the event name and its arguments (chat: index into heap)
Event(ev, chat, user, msg, old, new, raw) ==
    [ev |-> ev, chat |-> chat, user |-> user, msg |-> msg, old |-> old,
     new |-> new, raw |-> raw]

RawEvents == {"rawRealtime", "rawFbns"}
LifecycleEvents == {"connected", "debug"}

\* a request on the network, and the callback that waits for it
Task(kind, thread, user, cont, op, chat) ==
    [kind |-> kind, thread |-> thread, user |-> user, cont |-> cont, op |-> op,
     chat |-> chat]

NoOp == Op("", <<>>, BadValue)

NoTask == Task("", "", "", "", NoOp, 0)

(***************************************************************************)
(* The engine's state as one record, and the steps of the handlers on it   *)
(***************************************************************************)
Emit(s, e) == [s EXCEPT !.emitted = Append(@, e)]

\* Client._patchOrCreateUser, for every user of a thread payload
PatchOrCreateUsers(s, userIDs) == [s EXCEPT !.users = @ \cup Range(userIDs)]

\* new Chat(...) followed by this.cache.chats.set(id, chat)
CacheNewChat(s, threadID, payload) ==
    LET s1 == PatchOrCreateUsers(s, payload.users)
        ref == Len(s1.heap) + 1
    IN [s1 EXCEPT !.heap = Append(@, NewChat(threadID, payload)),
                  !.chats[threadID] = ref]

\* an exception in a promise callback, or a rejected request: the promise that
\* rejects has no handler (no .catch, no try around an await)
Unhandled(s) == [s EXCEPT !.unhandled = TRUE]

\* a promise job: the callback of a settled fetchChat / fetchUser promise
Enqueue(s, job) == [s EXCEPT !.micro = Append(@, job)]

\* a request sent to the network
Request(s, task) == [s EXCEPT !.inflight = Append(@, task)]

\* this.fetchChat(threadID).then(cont): on a cache hit the promise is already
\* fulfilled with the cached chat and the callback is a promise job; on a miss
\* the thread is requested.
FetchChatThen(s, threadID, cont, op) ==
    IF s.chats[threadID] # 0
    THEN Enqueue(s, Task("chatThen", threadID, "", cont, op, s.chats[threadID]))
    ELSE Request(s, Task("fetchChat", threadID, "", cont, op, 0))

\* this.fetchUser(userID).then(cont), and `await this.fetchUser(userID)`
FetchUserThen(s, userID, cont, op, chat) ==
    IF userID \in s.users
    THEN Enqueue(s, Task("userThen", "", userID, cont, op, chat))
    ELSE Request(s, Task("fetchUser", "", userID, cont, op, chat))

(***************************************************************************)
(* Patch applicator: thread replace (synchronous)                          *)
(***************************************************************************)
\* the name comparison with the old and the new name exchanged
CompareName_Swapped(s, ref, oldChat) ==
    LET chat == s.heap[ref]
    IN IF oldChat.name # chat.name
       THEN Emit(s, Event("chatNameUpdate", ref, "", "", chat.name, oldChat.name, NoEntry))
       ELSE s

\* /* Compare name */
CompareName(s, ref, oldChat) ==
    LET chat == s.heap[ref]
    IN IF oldChat.name # chat.name
       THEN Emit(s, Event("chatNameUpdate", ref, "", "", oldChat.name, chat.name, NoEntry))
       ELSE s

\* the member comparison with the tests of the two find() calls inverted
CompareUsers_InvertedFind(s, ref, oldChat) ==
    LET chat == s.heap[ref]
        InOld(u) == u \in Range(oldChat.users)
        InNew(u) == u \in Range(chat.users)
        userAdded == FindFirst(chat.users, InOld)
        userRemoved == FindFirst(oldChat.users, InNew)
    IN IF Len(oldChat.users) < Len(chat.users)
       THEN IF userAdded # ""
            THEN Emit(s, Event("chatUserAdd", ref, userAdded, "", "", "", NoEntry))
            ELSE s
       ELSE IF Len(oldChat.users) > Len(chat.users)
            THEN IF userRemoved # ""
                 THEN Emit(s, Event("chatUserRemove", ref, userRemoved, "", "", "", NoEntry))
                 ELSE s
            ELSE s

\* the member comparison announcing every member that came or went
CompareUsers_AnnouncesEveryChange(s, ref, oldChat) ==
    LET chat == s.heap[ref]
        NotInOld(u) == u \notin Range(oldChat.users)
        NotInNew(u) == u \notin Range(chat.users)
        added == SelectSeq(chat.users, NotInOld)
        removed == SelectSeq(oldChat.users, NotInNew)
    IN IF Len(oldChat.users) < Len(chat.users)
       THEN [s EXCEPT !.emitted = @ \o
                [i \in 1..Len(added) |->
                    Event("chatUserAdd", ref, added[i], "", "", "", NoEntry)]]
       ELSE IF Len(oldChat.users) > Len(chat.users)
            THEN [s EXCEPT !.emitted = @ \o
                     [i \in 1..Len(removed) |->
                         Event("chatUserRemove", ref, removed[i], "", "", "", NoEntry)]]
            ELSE s

\* /* Compare users */
CompareUsers(s, ref, oldChat) ==
    LET chat == s.heap[ref]
        NotInOld(u) == u \notin Range(oldChat.users)
        NotInNew(u) == u \notin Range(chat.users)
        userAdded == FindFirst(chat.users, NotInOld)
        userRemoved == FindFirst(oldChat.users, NotInNew)
    IN IF Len(oldChat.users) < Len(chat.users)
       THEN IF userAdded # ""
            THEN Emit(s, Event("chatUserAdd", ref, userAdded, "", "", "", NoEntry))
            ELSE s
       ELSE IF Len(oldChat.users) > Len(chat.users)
            THEN IF userRemoved # ""
                 THEN Emit(s, Event("chatUserRemove", ref, userRemoved, "", "", "", NoEntry))
                 ELSE s
            ELSE s

\* the calling comparison with callStart and callEnd exchanged
CompareCalling_Swapped(s, ref, oldChat) ==
    LET chat == s.heap[ref]
    IN IF ~oldChat.calling /\ chat.calling
       THEN Emit(s, Event("callEnd", ref, "", "", "", "", NoEntry))
       ELSE IF oldChat.calling /\ ~chat.calling
            THEN Emit(s, Event("callStart", ref, "", "", "", "", NoEntry))
            ELSE s

\* /* Compare calling status */
CompareCalling(s, ref, oldChat) ==
    LET chat == s.heap[ref]
    IN IF ~oldChat.calling /\ chat.calling
       THEN Emit(s, Event("callStart", ref, "", "", "", "", NoEntry))
       ELSE IF oldChat.calling /\ ~chat.calling
            THEN Emit(s, Event("callEnd", ref, "", "", "", "", NoEntry))
            ELSE s

\* the thread replace with a chat seen for the first time announced as a change
ReplaceThread_AnnouncesFirstSight(s, data) ==
    LET threadID == InboxThreadID(data.path)
        ref == s.chats[threadID]
    IN IF JSONparseThrows(data.value)
       THEN [s EXCEPT !.threw = TRUE, !.unhandled = TRUE]
       ELSE IF ref # 0
            THEN LET oldChat == s.heap[ref]
                     s1 == PatchOrCreateUsers(
                               [s EXCEPT !.heap[ref] = ChatPatch(@, data.value)],
                               data.value.users)
                 IN CompareCalling(CompareUsers(CompareName(s1, ref, oldChat), ref, oldChat),
                                   ref, oldChat)
            ELSE LET s1 == CacheNewChat(s, threadID, data.value)
                 IN IF data.value.calling
                    THEN Emit(s1, Event("callStart", s1.chats[threadID], "", "", "", "", NoEntry))
                    ELSE s1

\* case 'replace' on an inbox thread path.  JSON.parse is evaluated before
\* _patch or the constructor runs, so a value that does not decode throws
\* with nothing changed.
ReplaceThread(s, data) ==
    LET threadID == InboxThreadID(data.path)
        ref == s.chats[threadID]
    IN IF JSONparseThrows(data.value)
       THEN [s EXCEPT !.threw = TRUE, !.unhandled = TRUE]
       ELSE IF ref # 0
            THEN LET oldChat == s.heap[ref]
                     s1 == PatchOrCreateUsers(
                               [s EXCEPT !.heap[ref] = ChatPatch(@, data.value)],
                               data.value.users)
                 IN CompareCalling(CompareUsers(CompareName(s1, ref, oldChat), ref, oldChat),
                                   ref, oldChat)
            ELSE CacheNewChat(s, threadID, data.value)

\* the remove case without the test of the message path
ApplyOp_RemoveWithoutPathTest(s, data) ==
    CASE data.op = "replace" ->
            IF matchInboxThreadPath(data.path) THEN ReplaceThread(s, data)
            ELSE IF matchMessagePath(data.path)
                 THEN FetchChatThen(s, PathThreadID(data.path), "messageReplace", data)
                 ELSE s
      [] data.op = "add" ->
            IF matchAdminPath(data.path)
            THEN FetchChatThen(s, PathThreadID(data.path), "adminAdd", data)
            ELSE IF matchMessagePath(data.path)
                 THEN FetchChatThen(s, PathThreadID(data.path), "messageAdd", data)
                 ELSE s
      [] data.op = "remove" ->
            IF matchAdminPath(data.path)
            THEN FetchChatThen(s, PathThreadID(data.path), "adminRemove", data)
            ELSE FetchChatThen(s, PathThreadID(data.path), "messageRemove", data)
      [] OTHER -> s

\* One data operation of a raw message: the body of rawMessage.data.forEach.
ApplyOp(s, data) ==
    CASE data.op = "replace" ->
            IF matchInboxThreadPath(data.path) THEN ReplaceThread(s, data)
            ELSE IF matchMessagePath(data.path)
                 THEN FetchChatThen(s, PathThreadID(data.path), "messageReplace", data)
                 ELSE s
      [] data.op = "add" ->
            IF matchAdminPath(data.path)
            THEN FetchChatThen(s, PathThreadID(data.path), "adminAdd", data)
            ELSE IF matchMessagePath(data.path)
                 THEN FetchChatThen(s, PathThreadID(data.path), "messageAdd", data)
                 ELSE s
      [] data.op = "remove" ->
            IF matchAdminPath(data.path)
            THEN FetchChatThen(s, PathThreadID(data.path), "adminRemove", data)
            ELSE IF matchMessagePath(data.path)
                 THEN FetchChatThen(s, PathThreadID(data.path), "messageRemove", data)
                 ELSE s
      [] OTHER -> s

\* rawMessage.data.forEach(...) inside the async callback of
\* rawMessages.forEach: an exception ends the loop over this raw message's
\* operations and rejects the callback's promise, which nobody handles.
RECURSIVE ForEachData(_, _, _)
ForEachData(s, data, j) ==
    IF j > Len(data) \/ s.threw
    THEN [s EXCEPT !.threw = FALSE]
    ELSE ForEachData(ApplyOp(s, data[j]), data, j + 1)

RECURSIVE ForEachRawMessage(_, _, _)
ForEachRawMessage(s, rawMessages, i) ==
    IF i > Len(rawMessages)
    THEN s
    ELSE ForEachRawMessage(ForEachData(s, rawMessages[i], 1), rawMessages, i + 1)

\* handleRealtimeReceive holding a delivery back while a request is outstanding
handleRealtimeReceive_WaitsForFetches(s, topic, payload) ==
    IF ~s.ready \/ s.inflight # <<>>
    THEN [s EXCEPT !.eventsToReplay = Append(@, RealtimeEntry(topic, payload))]
    ELSE LET s1 == Emit(s, Event("rawRealtime", 0, "", "", "", "",
                                 RealtimeEntry(topic, payload)))
         IN IF topic = PatchTopic THEN ForEachRawMessage(s1, payload, 1) ELSE s1

\* handleRealtimeReceive with rawRealtime emitted ahead of the ready check
handleRealtimeReceive_RawBeforeReadyCheck(s, topic, payload) ==
    LET s1 == Emit(s, Event("rawRealtime", 0, "", "", "", "",
                            RealtimeEntry(topic, payload)))
    IN IF ~s.ready
       THEN [s1 EXCEPT !.eventsToReplay = Append(@, RealtimeEntry(topic, payload))]
       ELSE IF topic = PatchTopic THEN ForEachRawMessage(s1, payload, 1) ELSE s1

\* Client.handleRealtimeReceive(topic, payload), up to its return
handleRealtimeReceive(s, topic, payload) ==
    IF ~s.ready
    THEN [s EXCEPT !.eventsToReplay = Append(@, RealtimeEntry(topic, payload))]
    ELSE LET s1 == Emit(s, Event("rawRealtime", 0, "", "", "", "",
                                 RealtimeEntry(topic, payload)))
         IN IF topic = PatchTopic THEN ForEachRawMessage(s1, payload, 1) ELSE s1

(***************************************************************************)
(* Patch applicator: the callbacks that run once the chat is resolved      *)
(***************************************************************************)
SetMessage(messages, id, message) ==
    [k \in (DOMAIN messages) \cup {id} |-> IF k = id THEN message ELSE messages[k]]

\* the replace callback with a message it does not know stored as a new one
MessageReplaceThen_CreatesMissing(s, ref, data) ==
    LET payload == data.value
        id == payload.item_id
        oldLikes == s.heap[ref].messages[id].likes
        s1 == [s EXCEPT !.heap[ref].messages[id] = MessagePatch(@, payload)]
        newLikes == payload.likes
        NotInNew(u) == u \notin Range(newLikes)
        NotInOld(u) == u \notin Range(oldLikes)
        removed == FindFirst(oldLikes, NotInNew)
        added == FindFirst(newLikes, NotInOld)
    IN IF JSONparseThrows(payload) THEN Unhandled(s)
       ELSE IF id \notin DOMAIN s.heap[ref].messages
            THEN [s EXCEPT !.heap[ref].messages = SetMessage(@, id, NewMessage(payload))]
       ELSE IF Len(oldLikes) > Len(newLikes)
            THEN IF removed = "" THEN Unhandled(s1)
                 ELSE FetchUserThen(s1, removed, "likeRemove", data, ref)
            ELSE IF Len(newLikes) > Len(oldLikes) /\ added # ""
                 THEN FetchUserThen(s1, added, "likeAdd", data, ref)
                 ELSE s1

\* replace on a message path: /* Compare likes */
MessageReplaceThen(s, ref, data) ==
    LET payload == data.value
        id == payload.item_id
        oldLikes == s.heap[ref].messages[id].likes
        s1 == [s EXCEPT !.heap[ref].messages[id] = MessagePatch(@, payload)]
        newLikes == payload.likes
        NotInNew(u) == u \notin Range(newLikes)
        NotInOld(u) == u \notin Range(oldLikes)
        removed == FindFirst(oldLikes, NotInNew)
        added == FindFirst(newLikes, NotInOld)
    IN IF JSONparseThrows(payload) THEN Unhandled(s)
       ELSE IF id \notin DOMAIN s.heap[ref].messages THEN s
       ELSE IF Len(oldLikes) > Len(newLikes)
            THEN IF removed = "" THEN Unhandled(s1)  \* removed.userID throws a TypeError
                 ELSE FetchUserThen(s1, removed, "likeRemove", data, ref)
            ELSE IF Len(newLikes) > Len(oldLikes) /\ added # ""
                 THEN FetchUserThen(s1, added, "likeAdd", data, ref)
                 ELSE s1

\* the admin callback with remove taking the id out of adminUserIDs
AdminThen_RemoveTakesOut(s, ref, data, cont) ==
    LET userID == AdminPathUserID(data.path)
        s1 == IF cont = "adminAdd"
              THEN [s EXCEPT !.heap[ref].adminUserIDs = Append(@, userID)]
              ELSE [s EXCEPT !.heap[ref].adminUserIDs = SelectSeq(@, LAMBDA u : u # userID)]
    IN FetchUserThen(s1, userID, IF cont = "adminAdd" THEN "chatAdminAdd"
                                 ELSE "chatAdminRemove", data, ref)

\* add / remove on an admin path: both push the id onto adminUserIDs
AdminThen(s, ref, data, cont) ==
    LET userID == AdminPathUserID(data.path)
        s1 == [s EXCEPT !.heap[ref].adminUserIDs = Append(@, userID)]
    IN FetchUserThen(s1, userID, IF cont = "adminAdd" THEN "chatAdminAdd"
                                 ELSE "chatAdminRemove", data, ref)

\* the item-type test with video_call_event forgotten
isSystemItem_ActionLogOnly(payload) == payload.item_type = "action_log"

\* messagePayload.item_type === 'action_log' || ... === 'video_call_event'
isSystemItem(payload) == payload.item_type \in {"action_log", "video_call_event"}

\* the add callback without chat.messages.set
MessageAddThen_NoSet(s, ref, data) ==
    LET payload == data.value
        message == NewMessage(payload)
    IN IF JSONparseThrows(payload) THEN Unhandled(s)
       ELSE IF isSystemItem(payload) THEN s
       ELSE IF isMessageValid(message)
            THEN Emit(s, Event("messageCreate", ref, "", payload.item_id, "", "", NoEntry))
            ELSE s

\* the add callback announcing every message it stores
MessageAddThen_NoValidityTest(s, ref, data) ==
    LET payload == data.value
        message == NewMessage(payload)
        s1 == [s EXCEPT !.heap[ref].messages = SetMessage(@, payload.item_id, message)]
    IN IF JSONparseThrows(payload) THEN Unhandled(s)
       ELSE IF isSystemItem(payload) THEN s
       ELSE Emit(s1, Event("messageCreate", ref, "", payload.item_id, "", "", NoEntry))

\* add on a message path: // Create a new message
MessageAddThen(s, ref, data) ==
    LET payload == data.value
        message == NewMessage(payload)
        s1 == [s EXCEPT !.heap[ref].messages = SetMessage(@, payload.item_id, message)]
    IN IF JSONparseThrows(payload) THEN Unhandled(s)
       ELSE IF isSystemItem(payload) THEN s
       ELSE IF isMessageValid(message)
            THEN Emit(s1, Event("messageCreate", ref, "", payload.item_id, "", "", NoEntry))
            ELSE s1

\* remove on a message path: // Emit message delete event
MessageRemoveThen(s, ref, data) ==
    LET messageID == data.value.text
    IN IF messageID \in DOMAIN s.heap[ref].messages
       THEN Emit(s, Event("messageDelete", ref, "", messageID, "", "", NoEntry))
       ELSE s

\* the callback of fetchChat(threadID).then(...), given the resolved chat
ChatThen(s, job) ==
    CASE job.cont = "messageReplace" -> MessageReplaceThen(s, job.chat, job.op)
      [] job.cont \in {"adminAdd", "adminRemove"} -> AdminThen(s, job.chat, job.op, job.cont)
      [] job.cont = "messageAdd" -> MessageAddThen(s, job.chat, job.op)
      [] job.cont = "messageRemove" -> MessageRemoveThen(s, job.chat, job.op)
      [] OTHER -> s

\* the callbacks with the two follower events exchanged
UserThen_FollowerEventsSwapped(s, job) ==
    CASE job.cont \in {"likeRemove", "likeAdd"} ->
            Emit(s, Event(job.cont, job.chat, job.user, job.op.value.item_id, "", "", NoEntry))
      [] job.cont \in {"chatAdminAdd", "chatAdminRemove"} ->
            Emit(s, Event(job.cont, job.chat, job.user, "", "", "", NoEntry))
      [] job.cont = "newFollower" ->
            Emit(s, Event("followRequest", 0, job.user, "", "", "", NoEntry))
      [] job.cont = "followRequest" ->
            Emit(s, Event("newFollower", 0, job.user, "", "", "", NoEntry))
      [] OTHER -> s

\* the callback of fetchUser(userID).then(...), and the rest of
\* handleFbnsReceive after `await this.fetchUser(...)`: one emit
UserThen(s, job) ==
    CASE job.cont \in {"likeRemove", "likeAdd"} ->
            Emit(s, Event(job.cont, job.chat, job.user, job.op.value.item_id, "", "", NoEntry))
      [] job.cont \in {"chatAdminAdd", "chatAdminRemove"} ->
            Emit(s, Event(job.cont, job.chat, job.user, "", "", "", NoEntry))
      [] job.cont \in {"newFollower", "followRequest"} ->
            Emit(s, Event(job.cont, 0, job.user, "", "", "", NoEntry))
      [] OTHER -> s

RunJob(s, job) ==
    IF job.kind = "chatThen" THEN ChatThen(s, job) ELSE UserThen(s, job)

\* the promise jobs of one turn, first in first out, until none is left
RECURSIVE Drain(_)
Drain(s) ==
    IF s.micro = <<>>
    THEN s
    ELSE Drain(RunJob([s EXCEPT !.micro = Tail(@)], Head(s.micro)))

(***************************************************************************)
(* Push categorizer                                                        *)
(***************************************************************************)
\* handleFbnsReceive without the live_broadcast case
handleFbnsReceive_LiveBroadcastFallsThrough(s, data) ==
    IF ~s.ready
    THEN [s EXCEPT !.eventsToReplay = Append(@, FbnsEntry(data))]
    ELSE LET s1 == Emit(s, Event("rawFbns", 0, "", "", "", "", FbnsEntry(data)))
         IN CASE data.pushCategory = "new_follower" ->
                    IF data.sourceUserId # ""
                    THEN FetchUserThen(s1, data.sourceUserId, "newFollower", NoOp, 0)
                    ELSE s1
              [] data.pushCategory = "private_user_follow_request" ->
                    IF data.sourceUserId # ""
                    THEN FetchUserThen(s1, data.sourceUserId, "followRequest", NoOp, 0)
                    ELSE s1
              [] data.pushCategory = "direct_v2_pending" ->
                    IF data.actionId # "" /\ s1.pendingChats[data.actionId] = 0
                    THEN Request(s1, Task("directPending", data.actionId, "", "pendingRequest",
                                          NoOp, 0))
                    ELSE s1
              [] OTHER ->
                    Emit(s1, Event("push", 0, "", "", "", "", FbnsEntry(data)))

\* handleFbnsReceive with rawFbns emitted after the switch instead of before it
handleFbnsReceive_RawAfterSwitch(s, data) ==
    IF ~s.ready
    THEN [s EXCEPT !.eventsToReplay = Append(@, FbnsEntry(data))]
    ELSE LET s1 ==
               CASE data.pushCategory = "new_follower" ->
                      IF data.sourceUserId # ""
                      THEN FetchUserThen(s, data.sourceUserId, "newFollower", NoOp, 0)
                      ELSE s
                 [] data.pushCategory = "private_user_follow_request" ->
                      IF data.sourceUserId # ""
                      THEN FetchUserThen(s, data.sourceUserId, "followRequest", NoOp, 0)
                      ELSE s
                 [] data.pushCategory = "direct_v2_pending" ->
                      IF data.actionId # "" /\ s.pendingChats[data.actionId] = 0
                      THEN Request(s, Task("directPending", data.actionId, "",
                                           "pendingRequest", NoOp, 0))
                      ELSE s
                 [] data.pushCategory = "live_broadcast" ->
                      Emit(s, Event("liveNotification", 0, "", "", "", "", FbnsEntry(data)))
                 [] OTHER ->
                      Emit(s, Event("push", 0, "", "", "", "", FbnsEntry(data)))
         IN Emit(s1, Event("rawFbns", 0, "", "", "", "", FbnsEntry(data)))

\* Client.handleFbnsReceive(data), up to its first await or its return
handleFbnsReceive(s, data) ==
    IF ~s.ready
    THEN [s EXCEPT !.eventsToReplay = Append(@, FbnsEntry(data))]
    ELSE LET s1 == Emit(s, Event("rawFbns", 0, "", "", "", "", FbnsEntry(data)))
         IN CASE data.pushCategory = "new_follower" ->
                    IF data.sourceUserId # ""
                    THEN FetchUserThen(s1, data.sourceUserId, "newFollower", NoOp, 0)
                    ELSE s1
              [] data.pushCategory = "private_user_follow_request" ->
                    IF data.sourceUserId # ""
                    THEN FetchUserThen(s1, data.sourceUserId, "followRequest", NoOp, 0)
                    ELSE s1
              [] data.pushCategory = "direct_v2_pending" ->
                    IF data.actionId # "" /\ s1.pendingChats[data.actionId] = 0
                    THEN Request(s1, Task("directPending", data.actionId, "", "pendingRequest",
                                          NoOp, 0))
                    ELSE s1
              [] data.pushCategory = "live_broadcast" ->
                    Emit(s1, Event("liveNotification", 0, "", "", "", "", FbnsEntry(data)))
              [] OTHER ->
                    Emit(s1, Event("push", 0, "", "", "", "", FbnsEntry(data)))

\* the refresh with the threads put in the chats cache only
RECURSIVE CachePendingThreads_ChatsOnly(_, _, _)
CachePendingThreads_ChatsOnly(s, threads, i) ==
    IF i > Len(threads)
    THEN s
    ELSE CachePendingThreads_ChatsOnly(
             CacheNewChat(s, threads[i].thread_id, threads[i].payload), threads, i + 1)

\* pendingRequests.forEach(...): every returned thread becomes a new Chat in
\* both caches
RECURSIVE CachePendingThreads(_, _, _)
CachePendingThreads(s, threads, i) ==
    IF i > Len(threads)
    THEN s
    ELSE LET s1 == CacheNewChat(s, threads[i].thread_id, threads[i].payload)
         IN CachePendingThreads(
                [s1 EXCEPT !.pendingChats[threads[i].thread_id] = s1.chats[threads[i].thread_id]],
                threads, i + 1)

\* the rest of the direct_v2_pending case once the pending list is in
PendingThen(s, actionId, threads) ==
    LET s1 == CachePendingThreads(s, threads, 1)
        pendingChat == s1.pendingChats[actionId]
    IN IF pendingChat # 0
       THEN Emit(s1, Event("pendingRequest", pendingChat, "", "", "", "", NoEntry))
       ELSE s1

(***************************************************************************)
(* login: loading the chats, and the replay                                *)
(***************************************************************************)
\* threads.forEach(...) of login: every thread becomes a new Chat in the chats
\* cache, and in the pending cache when it is pending
RECURSIVE LoadThreads(_, _, _)
LoadThreads(s, threads, i) ==
    IF i > Len(threads)
    THEN s
    ELSE LET s1 == CacheNewChat(s, threads[i].thread_id, threads[i].payload)
             ref == s1.chats[threads[i].thread_id]
         IN LoadThreads(
                IF s1.heap[ref].pending
                THEN [s1 EXCEPT !.pendingChats[threads[i].thread_id] = ref]
                ELSE s1,
                threads, i + 1)

\* one entry of this.eventsToReplay.forEach(...)
ReplayEntry(s, event) ==
    IF event.type = "realtime"
    THEN handleRealtimeReceive(s, event.topic, event.payload)
    ELSE IF event.type = "fbns" THEN handleFbnsReceive(s, event.data) ELSE s

RECURSIVE ReplayFrom(_, _, _)
ReplayFrom(s, events, i) ==
    IF i > Len(events) THEN s ELSE ReplayFrom(ReplayEntry(s, events[i]), events, i + 1)

\* the replay run before this.ready is set
ReadyAndReplay_ReplayBeforeReady(s) ==
    LET s1 == ReplayFrom(s, s.eventsToReplay, 1)
        s2 == Emit([s1 EXCEPT !.ready = TRUE],
                   Event("connected", 0, "", "", "", "", NoEntry))
    IN [s2 EXCEPT !.eventsToReplay = <<>>]

\* the replay run once ready is set but before connected is emitted
ReadyAndReplay_ConnectedAfterReplay(s) ==
    LET s1 == [s EXCEPT !.ready = TRUE]
        s2 == ReplayFrom(s1, s1.eventsToReplay, 1)
        s3 == Emit(s2, Event("connected", 0, "", "", "", "", NoEntry))
    IN [s3 EXCEPT !.eventsToReplay = <<>>]

\* login from `this.ready = true` to `this.eventsToReplay = []`
ReadyAndReplay(s) ==
    LET s1 == Emit([s EXCEPT !.ready = TRUE],
                   Event("connected", 0, "", "", "", "", NoEntry))
        s2 == ReplayFrom(s1, s1.eventsToReplay, 1)
    IN [s2 EXCEPT !.eventsToReplay = <<>>]

(***************************************************************************)
(* What the network answers                                                *)
(***************************************************************************)
ClientUserId == "u1"

Thread(threadID, payload) == [thread_id |-> threadID, payload |-> payload]

InboxT1 == Thread("t1", ThreadValue("n1", <<"u1", "u2">>, FALSE, FALSE))
PendingT2 == Thread("t2", ThreadValue("n2", <<"u1", "u3">>, FALSE, TRUE))

\* directInbox().items() followed by directPending().items(), at login
LoginThreadLists == {<<InboxT1>>, <<InboxT1, PendingT2>>}

\* directPending().items(), on a direct_v2_pending push
PendingLists == {<<>>, <<PendingT2>>}

\* directThread({thread_id}).request()
FetchedThreads(threadID) ==
    {ThreadValue("n1", <<"u1", "u2">>, FALSE, FALSE)}

(***************************************************************************)
(* State                                                                   *)
(***************************************************************************)
VARIABLES
    ready,           \* this.ready
    eventsToReplay,  \* this.eventsToReplay
    chats,           \* this.cache.chats: thread id -> index into heap, 0 = none
    pendingChats,    \* this.cache.pendingChats, likewise
    users,           \* the ids in this.cache.users
    heap,            \* every Chat constructed so far
    emitted,         \* the emit() calls of the turn just taken, in order
    inflight,        \* requests on the network, with the callbacks awaiting them
    loginPc,         \* where login() is: idle, realtime (awaiting
                     \* realtime.connect), fbns (awaiting fbns.connect)
    rtState,         \* the realtime connection: none, up, closed (reconnect pending)
    fbnsSubscribed,  \* push$.subscribe has run
    logins,          \* calls of login so far
    deliveries,      \* deliveries so far
    alive,           \* the process is running
    calls,           \* history: per thread id, the callStart and callEnd events
                     \* emitted so far for a chat of that id, in order
    sinceLogout,     \* history: whether logout has run since the client was last
                     \* made ready (out), the deliveries since that logout, in
                     \* order (entries, kept through the turn of the login that
                     \* replays them), and whether the turn just taken is that
                     \* login (replayed)
    last             \* the turn just taken: its kind, its input or the request it
                     \* completed, and the engine's state before it

vars == <<ready, eventsToReplay, chats, pendingChats, users, heap, emitted, inflight,
          loginPc, rtState, fbnsSubscribed, logins, deliveries, alive, calls,
          sinceLogout, last>>

\* the engine's state as the record the handlers work on; micro (promise jobs),
\* threw (an exception in flight) and unhandled (a promise rejected with no
\* handler) are empty between turns
State ==
    [ready |-> ready, eventsToReplay |-> eventsToReplay, chats |-> chats,
     pendingChats |-> pendingChats, users |-> users, heap |-> heap,
     emitted |-> emitted, inflight |-> inflight, micro |-> <<>>, threw |-> FALSE,
     unhandled |-> FALSE]

\* what the runtime does with a promise rejected with no handler, once the
\* turn is over: it reports it and goes on, or it ends the process,
\* according to its version and its unhandled-rejections mode
UnhandledRejectionOutcomes == {TRUE, FALSE}

\* the names of the call events that s.emitted holds for a chat of thread t
CallsEmitted(s, t) ==
    LET OfThread(e) == e.ev \in {"callStart", "callEnd"} /\ s.heap[e.chat].id = t
        es == SelectSeq(s.emitted, OfThread)
    IN [i \in 1..Len(es) |-> es[i].ev]

Becomes(s) ==
    /\ alive  \* a process that has ended takes no turn
    /\ calls' = [t \in ThreadIds |-> calls[t] \o CallsEmitted(s, t)]
    /\ alive' \in (IF s.unhandled THEN UnhandledRejectionOutcomes ELSE {TRUE})
    /\ ready' = s.ready
    /\ eventsToReplay' = s.eventsToReplay
    /\ chats' = s.chats
    /\ pendingChats' = s.pendingChats
    /\ users' = s.users
    /\ heap' = s.heap
    /\ emitted' = s.emitted
    /\ inflight' = s.inflight

\* the state a turn starts from: nothing emitted yet
Start == [State EXCEPT !.emitted = <<>>]

\* a turn that runs none of the engine's code
Idle == Becomes(Start)

Did(kind, entry, task) ==
    /\ last' = [kind |-> kind, entry |-> entry, task |-> task, pre |-> Start]
    /\ sinceLogout' =
          CASE kind = "logout" -> [out |-> TRUE, entries |-> <<>>, replayed |-> FALSE]
            [] kind = "loginReady" ->
                  [sinceLogout EXCEPT !.out = FALSE, !.replayed = sinceLogout.out]
            [] kind \in {"realtime", "fbns"} /\ sinceLogout.out ->
                  [sinceLogout EXCEPT !.entries = Append(@, entry)]
            [] OTHER ->
                  IF sinceLogout.out
                  THEN sinceLogout
                  ELSE [out |-> FALSE, entries |-> <<>>, replayed |-> FALSE]

\* options.autoReconnect
AutoReconnect == TRUE

\* the constructor of Client
Init ==
    /\ ready = FALSE
    /\ eventsToReplay = <<>>
    /\ chats = [t \in ThreadIds |-> 0]
    /\ pendingChats = [t \in ThreadIds |-> 0]
    /\ users = {}
    /\ heap = <<>>
    /\ emitted = <<>>
    /\ inflight = <<>>
    /\ loginPc = "idle"
    /\ rtState = "none"
    /\ fbnsSubscribed = FALSE
    /\ logins = 0
    /\ deliveries = 0
    /\ alive = TRUE
    /\ calls = [t \in ThreadIds |-> <<>>]
    /\ sinceLogout = [out |-> FALSE, entries |-> <<>>, replayed |-> FALSE]
    /\ last = [kind |-> "init", entry |-> NoEntry, task |-> NoTask, pre |-> State]

(***************************************************************************)
(* Actions: one turn of the event loop each                                *)
(***************************************************************************)
\* login, from its call to the await of realtime.connect: the session is
\* valid and the inbox is in, the client user is cached, the chats are loaded,
\* the realtime handlers are registered.  (A login that fails before this
\* point has changed nothing.)
LoginLoad(threads) ==
    /\ loginPc = "idle"
    /\ logins < MaxLogins
    /\ LET s1 == Emit([Start EXCEPT !.users = @ \cup {ClientUserId}],
                      Event("debug", 0, ClientUserId, "", "", "", NoEntry))
       IN Becomes(LoadThreads(s1, threads, 1))
    /\ loginPc' = "realtime"
    /\ logins' = logins + 1
    /\ Did("loginLoad", NoEntry, NoTask)
    /\ UNCHANGED <<rtState, fbnsSubscribed, deliveries>>

\* realtime.connect resolved: push$ is subscribed, fbns.connect is awaited
LoginRealtimeConnected ==
    /\ loginPc = "realtime"
    /\ loginPc' = "fbns"
    /\ rtState' = "up"
    /\ fbnsSubscribed' = TRUE
    /\ Did("loginRealtime", NoEntry, NoTask)
    /\ Idle
    /\ UNCHANGED <<logins, deliveries>>

\* fbns.connect resolved: ready, connected, the replay
LoginReady ==
    /\ loginPc = "fbns"
    /\ Becomes(Drain(ReadyAndReplay(Start)))
    /\ loginPc' = "idle"
    /\ Did("loginReady", NoEntry, NoTask)
    /\ UNCHANGED <<rtState, fbnsSubscribed, logins, deliveries>>

\* realtime.connect or fbns.connect rejects: the catch block rethrows
LoginFail ==
    /\ loginPc \in {"realtime", "fbns"}
    /\ loginPc' = "idle"
    /\ Did("loginFail", NoEntry, NoTask)
    /\ Idle
    /\ UNCHANGED <<rtState, fbnsSubscribed, logins, deliveries>>

\* a logout that leaves the ready flag as it is
Logout_KeepsReady ==
    /\ loginPc = "idle"
    /\ ready
    /\ Idle
    /\ rtState' = IF rtState = "up" THEN "closed" ELSE rtState
    /\ Did("logout", NoEntry, NoTask)
    /\ UNCHANGED <<loginPc, fbnsSubscribed, logins, deliveries>>

\* logout, once its awaits are through; realtime.disconnect closes the
\* connection, which the 'close' handler answers
Logout ==
    /\ loginPc = "idle"
    /\ ready
    /\ Becomes([Start EXCEPT !.ready = FALSE])
    /\ rtState' = IF rtState = "up" THEN "closed" ELSE rtState
    /\ Did("logout", NoEntry, NoTask)
    /\ UNCHANGED <<loginPc, fbnsSubscribed, logins, deliveries>>

\* ig.realtime emits 'error': the handler reconnects at once
RealtimeError ==
    /\ rtState = "up"
    /\ rtState' = IF AutoReconnect THEN "up" ELSE rtState
    /\ Did("realtimeError", NoEntry, NoTask)
    /\ Idle
    /\ UNCHANGED <<loginPc, fbnsSubscribed, logins, deliveries>>

\* a 'close' handler that also resets readiness
RealtimeClose_ResetsReady ==
    /\ rtState = "up"
    /\ rtState' = "closed"
    /\ Did("realtimeClose", NoEntry, NoTask)
    /\ Becomes([Start EXCEPT !.ready = FALSE])
    /\ UNCHANGED <<loginPc, fbnsSubscribed, logins, deliveries>>

\* ig.realtime emits 'close': the handler sets a timer to reconnect
RealtimeClose ==
    /\ rtState = "up"
    /\ rtState' = "closed"
    /\ Did("realtimeClose", NoEntry, NoTask)
    /\ Idle
    /\ UNCHANGED <<loginPc, fbnsSubscribed, logins, deliveries>>

\* the timer of the 'close' handler: this.ig.realtime.connect()
RealtimeReconnect ==
    /\ rtState = "closed"
    /\ AutoReconnect
    /\ rtState' = "up"
    /\ Did("realtimeReconnect", NoEntry, NoTask)
    /\ Idle
    /\ UNCHANGED <<loginPc, fbnsSubscribed, logins, deliveries>>

\* ig.realtime emits 'receive'
DeliverRealtime(topic, payload) ==
    /\ rtState = "up"
    /\ deliveries < MaxDeliveries
    /\ Becomes(Drain(handleRealtimeReceive(Start, topic, payload)))
    /\ deliveries' = deliveries + 1
    /\ Did("realtime", RealtimeEntry(topic, payload), NoTask)
    /\ UNCHANGED <<loginPc, rtState, fbnsSubscribed, logins>>

\* ig.fbns.push$ delivers
DeliverFbns(data) ==
    /\ fbnsSubscribed
    /\ deliveries < MaxDeliveries
    /\ Becomes(Drain(handleFbnsReceive(Start, data)))
    /\ deliveries' = deliveries + 1
    /\ Did("fbns", FbnsEntry(data), NoTask)
    /\ UNCHANGED <<loginPc, rtState, fbnsSubscribed, logins>>

\* directThread().request() of fetchChat resolves: the rest of fetchChat
\* (a new Chat is cached whatever the cache holds by now), then the callback
ChatFetchResolve(i, payload) ==
    /\ i \in 1..Len(inflight)
    /\ inflight[i].kind = "fetchChat"
    /\ LET task == inflight[i]
           s1 == CacheNewChat([Start EXCEPT !.inflight = Remove(@, i)], task.thread, payload)
           job == Task("chatThen", task.thread, "", task.cont, task.op, s1.chats[task.thread])
       IN Becomes(Drain(Enqueue(s1, job)))
    /\ Did("chatFetched", NoEntry, inflight[i])
    /\ UNCHANGED <<loginPc, rtState, fbnsSubscribed, logins, deliveries>>

\* user.info() of fetchUser resolves: the user is cached, then the callback
UserFetchResolve(i) ==
    /\ i \in 1..Len(inflight)
    /\ inflight[i].kind = "fetchUser"
    /\ LET task == inflight[i]
           s1 == [Start EXCEPT !.inflight = Remove(@, i), !.users = @ \cup {task.user}]
           job == Task("userThen", "", task.user, task.cont, task.op, task.chat)
       IN Becomes(Drain(Enqueue(s1, job)))
    /\ Did("userFetched", NoEntry, inflight[i])
    /\ UNCHANGED <<loginPc, rtState, fbnsSubscribed, logins, deliveries>>

\* directPending().items() of handleFbnsReceive resolves
PendingListResolve(i, threads) ==
    /\ i \in 1..Len(inflight)
    /\ inflight[i].kind = "directPending"
    /\ Becomes(Drain(PendingThen([Start EXCEPT !.inflight = Remove(@, i)],
                                 inflight[i].thread, threads)))
    /\ Did("pendingListed", ListEntry(threads), inflight[i])
    /\ UNCHANGED <<loginPc, rtState, fbnsSubscribed, logins, deliveries>>

\* a request rejects: the promise chain waiting for it rejects, unhandled
FetchReject(i) ==
    /\ i \in 1..Len(inflight)
    /\ Becomes(Unhandled([Start EXCEPT !.inflight = Remove(@, i)]))
    /\ Did("fetchRejected", NoEntry, inflight[i])
    /\ UNCHANGED <<loginPc, rtState, fbnsSubscribed, logins, deliveries>>

(***************************************************************************)
(* Deliveries                                                              *)
(***************************************************************************)
\* a delivery on the patch topic carrying one raw message with the given operations
Patch(ops) == RealtimeEntry(PatchTopic, <<ops>>)

TextMessage(id, likes, valid) == MessageValue(id, "text", likes, valid)

AddMessage(t, value) == Op("add", MessagePath(t, value.item_id), value)
ReplaceMessage(t, value) == Op("replace", MessagePath(t, value.item_id), value)
RemoveMessage(t, id) == Op("remove", MessagePath(t, id), TextValue(id))
ReplaceThreadOp(t, value) == Op("replace", ThreadPath(t), value)

\* deliveries every specification draws from: they reach the chat fetch, the
\* user fetch and the pending-list refresh
BaseRealtime == {Patch(<<AddMessage("t2", TextMessage("m1", <<>>, TRUE))>>)}
BaseFbns == {Push("new_follower", "u3", ""), Push("direct_v2_pending", "", "t2")}

\* the buffer and its replay: cached and uncached chats, realtime and push
BufferRealtime ==
    BaseRealtime \cup
    {Patch(<<AddMessage("t1", TextMessage("m1", <<>>, TRUE))>>),
     Patch(<<ReplaceThreadOp("t1", ThreadValue("n2", <<"u1", "u2">>, FALSE, FALSE))>>),
     RealtimeEntry(OtherTopic, <<>>)}
BufferFbns == BaseFbns \cup {Push("like", "u2", "")}

\* paths outside the three categories, one per operation kind, with values
\* that would act if the path were taken for a thread or message path
PathsRealtime ==
    BaseRealtime \cup
    {Patch(<<Op("replace", SeenPath("t1", "u2"), ThreadValue("n2", <<"u1">>, TRUE, FALSE))>>),
     Patch(<<Op("add", UnseenCountPath, TextMessage("m1", <<>>, TRUE))>>),
     Patch(<<Op("remove", SeenPath("t2", "u1"), TextValue("m1"))>>)}

\* thread replaces on the chat loaded at login (n1, members u1 and u2, no call)
NameOnly == ThreadValue("n2", <<"u1", "u2">>, FALSE, FALSE)
Grown == ThreadValue("n1", <<"u1", "u2", "u3">>, FALSE, FALSE)
Shrunk == ThreadValue("n1", <<"u1">>, FALSE, FALSE)
Calling == ThreadValue("n1", <<"u1", "u2">>, TRUE, FALSE)
AllChanged == ThreadValue("n2", <<"u2", "u3", "u1">>, TRUE, FALSE)

ThreadRealtime ==
    BaseRealtime \cup
    {Patch(<<ReplaceThreadOp("t1", v)>>) : v \in {NameOnly, Grown, Shrunk, Calling, AllChanged}}

\* message adds and removes, on a cached chat (t1) and an uncached one (t2)
MessageRealtime ==
    BaseRealtime \cup
    {Patch(<<AddMessage("t1", TextMessage("m1", <<>>, TRUE))>>),
     Patch(<<AddMessage("t1", TextMessage("m2", <<>>, TRUE))>>),
     Patch(<<AddMessage("t1", MessageValue("m1", "action_log", <<>>, TRUE))>>),
     Patch(<<AddMessage("t2", MessageValue("m2", "video_call_event", <<>>, TRUE))>>),
     Patch(<<RemoveMessage("t1", "m1")>>)}

Next(Realtime, Fbns) ==
    \/ \E threads \in LoginThreadLists : LoginLoad(threads)
    \/ LoginRealtimeConnected
    \/ LoginReady
    \/ LoginFail
    \/ Logout
    \/ RealtimeError
    \/ RealtimeClose
    \/ RealtimeReconnect
    \/ \E e \in Realtime : DeliverRealtime(e.topic, e.payload)
    \/ \E data \in Fbns : DeliverFbns(data)
    \/ \E i \in 1..Len(inflight) :
          \E payload \in FetchedThreads(inflight[i].thread) : ChatFetchResolve(i, payload)
    \/ \E i \in 1..Len(inflight) : UserFetchResolve(i)
    \/ \E i \in 1..Len(inflight) : \E threads \in PendingLists : PendingListResolve(i, threads)
    \/ \E i \in 1..Len(inflight) : FetchReject(i)

Spec == Init /\ [][Next(BufferRealtime, BufferFbns)]_vars

SpecPaths == Init /\ [][Next(PathsRealtime, BaseFbns)]_vars

SpecThread == Init /\ [][Next(ThreadRealtime, BaseFbns)]_vars

SpecMessage == Init /\ [][Next(MessageRealtime, BaseFbns)]_vars

\* pushes of every category, with and without the identifier the category needs
PushFbns ==
    BaseFbns \cup
    {Push("private_user_follow_request", "u3", ""),
     Push("live_broadcast", "u2", ""),
     Push("like", "u2", ""),
     Push("new_follower", "", ""),
     Push("private_user_follow_request", "", ""),
     Push("direct_v2_pending", "", "")}

SpecPush == Init /\ [][Next(BaseRealtime, PushFbns)]_vars

\* one raw message with a message add and a thread replace on the cached chat,
\* in both orders, and a thread replace on a chat that may not be cached
OrderRealtime ==
    BaseRealtime \cup
    {Patch(<<AddMessage("t1", TextMessage("m1", <<>>, TRUE)), ReplaceThreadOp("t1", NameOnly)>>),
     Patch(<<ReplaceThreadOp("t1", NameOnly), AddMessage("t1", TextMessage("m1", <<>>, TRUE))>>),
     Patch(<<ReplaceThreadOp("t2", AllChanged)>>)}

SpecOrder == Init /\ [][Next(OrderRealtime, BaseFbns)]_vars

\* message replaces on a message liked by u2: the like moved to u3, the like
\* taken back, a message the chat does not hold, and a chat that is not cached
LikesRealtime ==
    BaseRealtime \cup
    {Patch(<<AddMessage("t1", TextMessage("m1", <<"u2">>, TRUE))>>),
     Patch(<<ReplaceMessage("t1", TextMessage("m1", <<"u3">>, TRUE))>>),
     Patch(<<ReplaceMessage("t1", TextMessage("m1", <<>>, TRUE))>>),
     Patch(<<ReplaceMessage("t1", TextMessage("m2", <<"u2">>, TRUE))>>),
     Patch(<<ReplaceMessage("t2", TextMessage("m1", <<"u2">>, TRUE))>>)}

SpecLikes == Init /\ [][Next(LikesRealtime, BaseFbns)]_vars

\* admin adds and removes: on the chat loaded at login for a user that is
\* cached only when the pending thread was loaded too, and on a chat that may
\* have to be fetched
AdminRealtime ==
    {Patch(<<Op("add", AdminPath("t1", "u3"), TextValue("u3"))>>),
     Patch(<<Op("remove", AdminPath("t1", "u3"), TextValue("u3"))>>),
     Patch(<<Op("remove", AdminPath("t2", "u2"), TextValue("u2"))>>)}

SpecAdmin == Init /\ [][Next(AdminRealtime, BaseFbns)]_vars

\* operations whose value does not decode, alone and next to operations
\* whose value does: a thread replace before and after one, a message add
BadValueRealtime ==
    BaseRealtime \cup
    {Patch(<<ReplaceThreadOp("t1", BadValue), ReplaceThreadOp("t1", NameOnly)>>),
     Patch(<<ReplaceThreadOp("t1", NameOnly), ReplaceThreadOp("t1", BadValue)>>),
     Patch(<<Op("add", MessagePath("t1", "m1"), BadValue),
             AddMessage("t1", TextMessage("m2", <<>>, TRUE))>>),
     Patch(<<ReplaceThreadOp("t1", BadValue)>>)}

SpecBadValue == Init /\ [][Next(BadValueRealtime, BaseFbns)]_vars

\* a delivery whose first operation needs a chat fetch and whose second does
\* not, and a delivery on another topic
StallRealtime ==
    {Patch(<<AddMessage("t2", TextMessage("m1", <<>>, TRUE)), ReplaceThreadOp("t1", NameOnly)>>),
     RealtimeEntry(OtherTopic, <<>>)}

SpecStall == Init /\ [][Next(StallRealtime, BaseFbns)]_vars

\* message adds that fail the validity predicate, on a cached chat and on one
\* that may have to be fetched, next to adds that pass it
ValidityRealtime ==
    BaseRealtime \cup
    {Patch(<<AddMessage("t1", TextMessage("m1", <<>>, FALSE))>>),
     Patch(<<AddMessage("t1", TextMessage("m2", <<>>, TRUE))>>),
     Patch(<<AddMessage("t2", TextMessage("m2", <<>>, FALSE))>>)}

SpecValidity == Init /\ [][Next(ValidityRealtime, BaseFbns)]_vars

\* two different messages added to the chat that is not cached (t2)
RaceRealtime ==
    BaseRealtime \cup {Patch(<<AddMessage("t2", TextMessage("m2", <<>>, TRUE))>>)}

SpecRace == Init /\ [][Next(RaceRealtime, BaseFbns)]_vars

\* calls starting and ending on the cached chat (t1); on the chat that is not
\* cached (t2) a message add, the first sight of the thread and the start of a
\* call in one raw message, and the start of a call alone
CallRealtime ==
    {Patch(<<AddMessage("t2", TextMessage("m1", <<>>, TRUE)),
             ReplaceThreadOp("t2", NameOnly), ReplaceThreadOp("t2", Calling)>>),
     Patch(<<ReplaceThreadOp("t2", Calling)>>),
     Patch(<<ReplaceThreadOp("t1", Calling)>>),
     Patch(<<ReplaceThreadOp("t1", NameOnly)>>)}

SpecCall == Init /\ [][Next(CallRealtime, BaseFbns)]_vars

(***************************************************************************)
(* Properties.  Each is stated on the turn just taken: last.pre is the     *)
(* engine's state before it, the variables are the state after it and      *)
(* emitted is what it emitted.                                             *)
(***************************************************************************)
Delivery == last.kind \in {"realtime", "fbns"}

CacheUnchanged ==
    /\ chats = last.pre.chats
    /\ pendingChats = last.pre.pendingChats
    /\ users = last.pre.users
    /\ heap = last.pre.heap

IsRaw(e) == e.ev \in RawEvents
IsDomain(e) == e.ev \notin RawEvents \cup LifecycleEvents

\* the events of the turn with one of the given names, in order
Emitted(names) == SelectSeq(emitted, LAMBDA e : e.ev \in names)

\* the state login has reached at line 610: ready, connected emitted
Readied(s) == Emit([s EXCEPT !.ready = TRUE], Event("connected", 0, "", "", "", "", NoEntry))

\* C1: while the client is not ready, a realtime or push delivery is only
\* appended to the replay queue: it emits nothing, starts no request and
\* changes no cache entry.
C1_BufferingOnlyQueues ==
    (Delivery /\ ~last.pre.ready) =>
        /\ eventsToReplay = Append(last.pre.eventsToReplay, last.entry)
        /\ emitted = <<>>
        /\ inflight = last.pre.inflight
        /\ CacheUnchanged
        /\ ~ready

\* a push delivered while buffering, behind a realtime delivery already queued
C1_Witness ==
    /\ last.kind = "fbns"
    /\ ~last.pre.ready
    /\ Len(eventsToReplay) = 2
    /\ eventsToReplay[1].type = "realtime"
    /\ eventsToReplay[2].type = "fbns"

\* C2: on readiness every queued entry is handed to its handler exactly once
\* and in arrival order (the raw events of the replay are the queued entries,
\* in order), none is queued again during the drain, and the queue is empty
\* when the drain is over.
C2_ReplayOnceInOrder ==
    last.kind = "loginReady" =>
        LET queued == last.pre.eventsToReplay
            raws == Emitted(RawEvents)
        IN /\ Len(raws) = Len(queued)
           /\ \A i \in 1..Len(queued) : raws[i].raw = queued[i]
           /\ ReplayFrom(Readied(last.pre), queued, 1).eventsToReplay = queued
           /\ eventsToReplay = <<>>
           /\ ready

\* a replay of a queue holding a realtime entry and a push entry
C2_Witness ==
    /\ last.kind = "loginReady"
    /\ Len(last.pre.eventsToReplay) = 2
    /\ {last.pre.eventsToReplay[i].type : i \in 1..2} = {"realtime", "fbns"}
    /\ Len(Emitted(RawEvents)) = 2

\* the same entries delivered live, one turn each, from state s
RECURSIVE LiveFrom(_, _, _)
LiveFrom(s, events, i) ==
    IF i > Len(events)
    THEN s
    ELSE LiveFrom(Drain(ReplayEntry(s, events[i])), events, i + 1)

\* C3: replay equivalence: the replay leaves the cache and the emitted
\* events that delivering the queued entries live, one at a time and in the
\* same order, would have left.
C3_ReplayEquivalence ==
    last.kind = "loginReady" =>
        LET live == LiveFrom(Readied(last.pre), last.pre.eventsToReplay, 1)
        IN /\ emitted = live.emitted
           /\ chats = live.chats
           /\ pendingChats = live.pendingChats
           /\ users = live.users
           /\ heap = live.heap

\* C4: once live, every delivery is processed in its own turn and the queue
\* stays empty, across realtime 'error' and 'close' events and reconnects,
\* until logout resets readiness.
C4_LiveNeverBuffers ==
    /\ ready => eventsToReplay = <<>>
    /\ (Delivery /\ last.pre.ready) =>
          /\ emitted # <<>>
          /\ IsRaw(emitted[1])
          /\ emitted[1].raw = last.entry
          /\ ready
    /\ last.kind \in {"realtimeError", "realtimeClose", "realtimeReconnect"} =>
          /\ ready = last.pre.ready
          /\ eventsToReplay = last.pre.eventsToReplay

\* live, after a delivery was processed: the connection has closed and the
\* reconnect timer has just reopened it, with the queue still empty
C4_Witness ==
    /\ last.kind = "realtimeReconnect"
    /\ ready
    /\ deliveries > 0
    /\ eventsToReplay = <<>>

\* the turn was a live delivery on the patch topic of one raw message holding
\* one operation
LiveSingleOp ==
    /\ last.kind = "realtime"
    /\ last.pre.ready
    /\ last.entry.topic = PatchTopic
    /\ Len(last.entry.payload) = 1
    /\ Len(last.entry.payload[1]) = 1

TheOp == last.entry.payload[1][1]

Matches(path) ==
    matchInboxThreadPath(path) \/ matchMessagePath(path) \/ matchAdminPath(path)

\* C5: a replace, add or remove whose path is in none of the thread, message
\* and admin categories changes no cache entry, starts no request and emits no
\* domain event.
C5_UnmatchedPathIgnored ==
    (/\ LiveSingleOp
     /\ TheOp.op \in {"replace", "add", "remove"}
     /\ ~Matches(TheOp.path)) =>
        /\ CacheUnchanged
        /\ inflight = last.pre.inflight
        /\ SelectSeq(emitted, IsDomain) = <<>>
        /\ Len(emitted) = 1

\* a remove on a path of none of the categories was processed live, with its
\* thread not cached
C5_Witness ==
    /\ LiveSingleOp
    /\ TheOp.op = "remove"
    /\ ~Matches(TheOp.path)
    /\ last.pre.chats[TheOp.path[3]] = 0
    /\ Len(emitted) = 1

\* the turn was a live thread replace, with a value that decodes, of a chat
\* that was cached
CachedThreadReplace ==
    /\ LiveSingleOp
    /\ TheOp.op = "replace"
    /\ matchInboxThreadPath(TheOp.path)
    /\ ~JSONparseThrows(TheOp.value)
    /\ last.pre.chats[InboxThreadID(TheOp.path)] # 0

TheRef == last.pre.chats[InboxThreadID(TheOp.path)]
OldChat == last.pre.heap[TheRef]

ThreadEvents == {"chatNameUpdate", "chatUserAdd", "chatUserRemove", "callStart", "callEnd"}

\* C6: a thread replace on a cached chat that changes only the name emits
\* exactly one chatNameUpdate(chat, name before the merge, name after it) and
\* no chatUserAdd, chatUserRemove, callStart or callEnd.
C6_NameOnlyUpdate ==
    (/\ CachedThreadReplace
     /\ TheOp.value.name # OldChat.name
     /\ Range(TheOp.value.users) = Range(OldChat.users)
     /\ TheOp.value.calling = OldChat.calling) =>
        /\ Emitted(ThreadEvents) =
              <<Event("chatNameUpdate", TheRef, "", "", OldChat.name, heap[TheRef].name, NoEntry)>>
        /\ heap[TheRef].name = TheOp.value.name
        /\ chats = last.pre.chats

\* the name of the chat loaded at login was replaced, members and call as before
C6_Witness ==
    /\ CachedThreadReplace
    /\ TheOp.value.name # OldChat.name
    /\ TheOp.value.users = OldChat.users
    /\ TheOp.value.calling = OldChat.calling
    /\ Len(emitted) = 2

GrowsByOne ==
    /\ Range(OldChat.users) \subseteq Range(TheOp.value.users)
    /\ Cardinality(Range(TheOp.value.users) \ Range(OldChat.users)) = 1
    /\ Len(TheOp.value.users) = Len(OldChat.users) + 1

ShrinksByOne ==
    /\ Range(TheOp.value.users) \subseteq Range(OldChat.users)
    /\ Cardinality(Range(OldChat.users) \ Range(TheOp.value.users)) = 1
    /\ Len(OldChat.users) = Len(TheOp.value.users) + 1

\* C7: a thread replace on a cached chat that grows the member set by one
\* emits exactly one chatUserAdd, with the user absent before the merge and
\* present after it; one that shrinks it by one emits exactly one
\* chatUserRemove, with the user present before and absent after.
C7_MembershipByOne ==
    /\ (CachedThreadReplace /\ GrowsByOne) =>
          \E u \in Range(heap[TheRef].users) \ Range(OldChat.users) :
              Emitted({"chatUserAdd", "chatUserRemove"}) =
                  <<Event("chatUserAdd", TheRef, u, "", "", "", NoEntry)>>
    /\ (CachedThreadReplace /\ ShrinksByOne) =>
          \E u \in Range(OldChat.users) \ Range(heap[TheRef].users) :
              Emitted({"chatUserAdd", "chatUserRemove"}) =
                  <<Event("chatUserRemove", TheRef, u, "", "", "", NoEntry)>>

\* a chat that had grown from two members to three has shrunk again by one
C7_Witness ==
    /\ CachedThreadReplace
    /\ ShrinksByOne
    /\ Len(OldChat.users) = 3
    /\ Len(Emitted({"chatUserRemove"})) = 1

\* an add on a message path whose value decodes
IsMessageAdd(data) ==
    /\ data.op = "add"
    /\ ~matchAdminPath(data.path)
    /\ matchMessagePath(data.path)
    /\ ~JSONparseThrows(data.value)

\* the turn ran the callback of a message add: in the turn of the delivery when
\* the chat was cached, in the turn that completed the chat fetch when not
AddResolved ==
    \/ LiveSingleOp /\ IsMessageAdd(TheOp) /\ last.pre.chats[PathThreadID(TheOp.path)] # 0
    \/ last.kind = "chatFetched" /\ last.task.cont = "messageAdd" /\ IsMessageAdd(last.task.op)

AddOp == IF last.kind = "chatFetched" THEN last.task.op ELSE TheOp
AddThread == PathThreadID(AddOp.path)

\* the ids in the message mapping of the chat cached under a thread id
MessageIds(cache, objects, t) ==
    IF cache[t] = 0 THEN {} ELSE DOMAIN objects[cache[t]].messages

\* the Chat objects that existed before the turn are as they were
OldChatsUntouched == SubSeq(heap, 1, Len(last.pre.heap)) = last.pre.heap

\* C8: a message add whose item type is action_log or video_call_event adds no
\* Message to the chat's message mapping and emits no messageCreate.
C8_SystemItemDiscarded ==
    (AddResolved /\ AddOp.value.item_type \in {"action_log", "video_call_event"}) =>
        /\ OldChatsUntouched
        /\ chats[AddThread] # 0
        /\ MessageIds(chats, heap, AddThread) \subseteq
              MessageIds(last.pre.chats, last.pre.heap, AddThread)
        /\ Emitted({"messageCreate"}) = <<>>

\* the chat fetched for a video_call_event item has been resolved
C8_Witness ==
    /\ last.kind = "chatFetched"
    /\ last.task.cont = "messageAdd"
    /\ last.task.op.value.item_type = "video_call_event"
    /\ chats[AddThread] = Len(heap)
    /\ emitted = <<>>

\* C9: a message add for a valid, non-system message whose id is not yet in
\* the chat's message mapping leaves, once the chat is resolved, exactly one
\* new entry (that message) in the cached chat's mapping and emits exactly
\* one messageCreate for it.  (When the chat was cached at the delivery it is
\* the same Chat afterwards, with the entries it had.)
C9_ValidAddCreates ==
    (/\ AddResolved
     /\ ~isSystemItem(AddOp.value)
     /\ AddOp.value.valid
     /\ AddOp.value.item_id \notin MessageIds(last.pre.chats, last.pre.heap, AddThread)) =>
        LET ref == chats[AddThread]
            id == AddOp.value.item_id
        IN /\ ref # 0
           /\ MessageIds(chats, heap, AddThread)
                 \ MessageIds(last.pre.chats, last.pre.heap, AddThread) = {id}
           /\ heap[ref].messages[id] = NewMessage(AddOp.value)
           /\ last.kind = "realtime" =>
                 /\ ref = last.pre.chats[AddThread]
                 /\ \A k \in DOMAIN last.pre.heap[ref].messages :
                       /\ k \in DOMAIN heap[ref].messages
                       /\ heap[ref].messages[k] = last.pre.heap[ref].messages[k]
           /\ Emitted({"messageCreate"}) =
                 <<Event("messageCreate", ref, "", id, "", "", NoEntry)>>

\* a second message was added to a cached chat that already held one
C9_Witness ==
    /\ LiveSingleOp
    /\ IsMessageAdd(TheOp)
    /\ TheOp.value.valid
    /\ ~isSystemItem(TheOp.value)
    /\ last.pre.chats[PathThreadID(TheOp.path)] # 0
    /\ Cardinality(MessageIds(last.pre.chats, last.pre.heap, PathThreadID(TheOp.path))) = 1
    /\ Cardinality(MessageIds(chats, heap, PathThreadID(TheOp.path))) = 2
    /\ Len(Emitted({"messageCreate"})) = 1

\* the turn was a live remove on a message path of a cached chat
CachedMessageRemove ==
    /\ LiveSingleOp
    /\ TheOp.op = "remove"
    /\ ~matchAdminPath(TheOp.path)
    /\ matchMessagePath(TheOp.path)
    /\ last.pre.chats[PathThreadID(TheOp.path)] # 0

RemoveRef == last.pre.chats[PathThreadID(TheOp.path)]

\* C10: a message remove whose value is an id in the chat's message mapping
\* emits messageDelete with that message and leaves the id absent from the
\* mapping; a remove of an id that is not in the mapping emits nothing and
\* changes nothing.
C10_RemoveDeletes ==
    CachedMessageRemove =>
        IF TheOp.value.text \in DOMAIN last.pre.heap[RemoveRef].messages
        THEN /\ Emitted({"messageDelete"}) =
                   <<Event("messageDelete", RemoveRef, "", TheOp.value.text, "", "", NoEntry)>>
             /\ TheOp.value.text \notin DOMAIN heap[RemoveRef].messages
        ELSE /\ SelectSeq(emitted, IsDomain) = <<>>
             /\ CacheUnchanged

\* what the code does on a remove: the messageDelete is emitted, with the
\* message as it is, and the mapping keeps the id
C10_RemoveOnlyEmits ==
    CachedMessageRemove =>
        /\ CacheUnchanged
        /\ IF TheOp.value.text \in DOMAIN last.pre.heap[RemoveRef].messages
           THEN SelectSeq(emitted, IsDomain) =
                   <<Event("messageDelete", RemoveRef, "", TheOp.value.text, "", "", NoEntry)>>
           ELSE SelectSeq(emitted, IsDomain) = <<>>

\* the turn was a push delivered live
LivePush == last.kind = "fbns" /\ last.pre.ready

ThePush == last.entry.data

\* the category of a follower push, by the event it leads to
FollowerCategory(cont) ==
    IF cont = "newFollower" THEN "new_follower" ELSE "private_user_follow_request"

\* a follower push that names its source user
FollowerPush(cont) ==
    /\ LivePush
    /\ ThePush.pushCategory = FollowerCategory(cont)
    /\ ThePush.sourceUserId # ""

\* C11: a new_follower push with a source user id emits, once the user is
\* resolved (in the turn of the delivery when the user is cached, in the turn
\* that completes the user fetch when not), exactly one newFollower carrying
\* that user and no other domain event; likewise private_user_follow_request
\* and followRequest.
C11_FollowerEvents ==
    \A cont \in {"newFollower", "followRequest"} :
        /\ (FollowerPush(cont) /\ ThePush.sourceUserId \in last.pre.users) =>
              /\ SelectSeq(emitted, IsDomain) =
                    <<Event(cont, 0, ThePush.sourceUserId, "", "", "", NoEntry)>>
              /\ inflight = last.pre.inflight
        /\ (FollowerPush(cont) /\ ThePush.sourceUserId \notin last.pre.users) =>
              /\ SelectSeq(emitted, IsDomain) = <<>>
              /\ inflight = Append(last.pre.inflight,
                                   Task("fetchUser", "", ThePush.sourceUserId, cont, NoOp, 0))
        /\ (last.kind = "userFetched" /\ last.task.cont = cont) =>
              /\ emitted = <<Event(cont, 0, last.task.user, "", "", "", NoEntry)>>
              /\ last.task.user \in users

\* the user of a follow request had to be fetched, and the fetch has resolved
C11_Witness ==
    /\ last.kind = "userFetched"
    /\ last.task.cont = "followRequest"
    /\ last.task.user \notin last.pre.users
    /\ Len(emitted) = 1

KnownCategories ==
    {"new_follower", "private_user_follow_request", "direct_v2_pending", "live_broadcast"}

\* C12: a live push of none of the four known categories emits exactly one
\* push event carrying the payload as delivered and changes no cache entry; a
\* live_broadcast push emits exactly one liveNotification carrying the payload
\* and no push event.
C12_CatchAllAndLive ==
    /\ (LivePush /\ ThePush.pushCategory \notin KnownCategories) =>
          /\ emitted = <<Event("rawFbns", 0, "", "", "", "", last.entry),
                         Event("push", 0, "", "", "", "", last.entry)>>
          /\ CacheUnchanged
          /\ inflight = last.pre.inflight
    /\ (LivePush /\ ThePush.pushCategory = "live_broadcast") =>
          /\ emitted = <<Event("rawFbns", 0, "", "", "", "", last.entry),
                         Event("liveNotification", 0, "", "", "", "", last.entry)>>

\* a live_broadcast push was delivered live and announced
C12_Witness ==
    /\ LivePush
    /\ ThePush.pushCategory = "live_broadcast"
    /\ Len(Emitted({"liveNotification"})) = 1

\* a push of a known category without the identifier the category needs
MalformedPush ==
    \/ ThePush.pushCategory \in {"new_follower", "private_user_follow_request"}
          /\ ThePush.sourceUserId = ""
    \/ ThePush.pushCategory = "direct_v2_pending" /\ ThePush.actionId = ""

\* C14: a follower push without a source user id, and a direct_v2_pending
\* push without an action-parameter id, each emit the catch-all push event
\* with the payload as delivered.
C14_MalformedFallsThrough ==
    (LivePush /\ MalformedPush) =>
        Emitted({"push"}) = <<Event("push", 0, "", "", "", "", last.entry)>>

\* what the code does with such a push: the raw event and nothing else
C14_MalformedOnlyRaw ==
    (LivePush /\ MalformedPush) =>
        /\ emitted = <<Event("rawFbns", 0, "", "", "", "", last.entry)>>
        /\ CacheUnchanged
        /\ inflight = last.pre.inflight

\* the turn was a live delivery on the patch topic of one raw message
LiveBatch ==
    /\ last.kind = "realtime"
    /\ last.pre.ready
    /\ last.entry.topic = PatchTopic
    /\ Len(last.entry.payload) = 1

TheOps == last.entry.payload[1]

\* the thread an operation is about
OpThread(data) ==
    IF matchInboxThreadPath(data.path) THEN InboxThreadID(data.path) ELSE PathThreadID(data.path)

\* the events an operation can derive
DerivedNames(data) ==
    CASE data.op = "replace" /\ matchInboxThreadPath(data.path) -> ThreadEvents
      [] data.op = "replace" /\ matchMessagePath(data.path) -> {"likeAdd", "likeRemove"}
      [] data.op = "add" /\ matchAdminPath(data.path) -> {"chatAdminAdd"}
      [] data.op = "add" /\ matchMessagePath(data.path) -> {"messageCreate"}
      [] data.op = "remove" /\ matchAdminPath(data.path) -> {"chatAdminRemove"}
      [] data.op = "remove" /\ matchMessagePath(data.path) -> {"messageDelete"}
      [] OTHER -> {}

\* every chat and every user the operations need was cached before the turn
AllCached ==
    \A p \in 1..Len(TheOps) :
        /\ Matches(TheOps[p].path)
        /\ last.pre.chats[OpThread(TheOps[p])] # 0
        /\ matchAdminPath(TheOps[p].path) => AdminPathUserID(TheOps[p].path) \in last.pre.users

\* C13: when every entity the operations of a delivery need is cached, the
\* derived events are emitted in the order of the operations: the events
\* of an earlier operation come before those of a later one.
C13_CachedInArrivalOrder ==
    (LiveBatch /\ AllCached) =>
        \A p, q \in 1..Len(TheOps) :
            (p < q /\ DerivedNames(TheOps[p]) \cap DerivedNames(TheOps[q]) = {}) =>
                \A i, j \in 1..Len(emitted) :
                    (/\ emitted[i].ev \in DerivedNames(TheOps[p])
                     /\ emitted[j].ev \in DerivedNames(TheOps[q])) => i < j

\* the turn was a live thread replace, with a value that decodes, of a chat
\* that was not cached
FirstSightReplace ==
    /\ LiveSingleOp
    /\ TheOp.op = "replace"
    /\ matchInboxThreadPath(TheOp.path)
    /\ ~JSONparseThrows(TheOp.value)
    /\ last.pre.chats[InboxThreadID(TheOp.path)] = 0

\* C17: a thread replace for a thread id that is not in the chats cache
\* constructs the Chat from the payload, inserts it into the chats cache and
\* emits no domain event, whatever the payload holds.
C17_FirstSightSilent ==
    FirstSightReplace =>
        LET threadID == InboxThreadID(TheOp.path)
        IN /\ heap = Append(last.pre.heap, NewChat(threadID, TheOp.value))
           /\ chats = [last.pre.chats EXCEPT ![threadID] = Len(heap)]
           /\ pendingChats = last.pre.pendingChats
           /\ SelectSeq(emitted, IsDomain) = <<>>
           /\ Len(emitted) = 1

\* a chat with another name, other members and a call under way was seen
\* for the first time
C17_Witness ==
    /\ FirstSightReplace
    /\ TheOp.value.calling
    /\ chats[InboxThreadID(TheOp.path)] = Len(heap)
    /\ heap[Len(heap)].calling

\* a direct_v2_pending push that names a thread, delivered live
PendingPush ==
    /\ LivePush
    /\ ThePush.pushCategory = "direct_v2_pending"
    /\ ThePush.actionId # ""

\* the last position of a thread id in a list of threads, 0 when it is not there
LastOf(threads, t) ==
    IF \E k \in 1..Len(threads) : threads[k].thread_id = t
    THEN CHOOSE k \in 1..Len(threads) :
             /\ threads[k].thread_id = t
             /\ \A j \in (k + 1)..Len(threads) : threads[j].thread_id # t
    ELSE 0

\* C15: a direct_v2_pending push whose id is not in the pending-chat cache
\* requests the pending-thread list; when the list is in, every returned
\* thread is a new Chat in both the chats cache and the pending-chats cache,
\* and exactly one pendingRequest is emitted for the chat with the push's id
\* if the pending cache holds it then, none otherwise.  A push whose id is in
\* the pending cache already requests nothing, changes no cache entry and
\* emits no pendingRequest.
C15_PendingRefresh ==
    /\ (PendingPush /\ last.pre.pendingChats[ThePush.actionId] = 0) =>
          /\ inflight = Append(last.pre.inflight,
                               Task("directPending", ThePush.actionId, "", "pendingRequest",
                                    NoOp, 0))
          /\ CacheUnchanged
          /\ SelectSeq(emitted, IsDomain) = <<>>
    /\ (PendingPush /\ last.pre.pendingChats[ThePush.actionId] # 0) =>
          /\ inflight = last.pre.inflight
          /\ CacheUnchanged
          /\ SelectSeq(emitted, IsDomain) = <<>>
    /\ last.kind = "pendingListed" =>
          LET threads == last.entry.payload
              base == Len(last.pre.heap)
              id == last.task.thread
          IN /\ Len(heap) = base + Len(threads)
             /\ \A k \in 1..Len(threads) :
                    heap[base + k] = NewChat(threads[k].thread_id, threads[k].payload)
             /\ \A t \in ThreadIds :
                    IF LastOf(threads, t) # 0
                    THEN /\ chats[t] = base + LastOf(threads, t)
                         /\ pendingChats[t] = base + LastOf(threads, t)
                    ELSE /\ chats[t] = last.pre.chats[t]
                         /\ pendingChats[t] = last.pre.pendingChats[t]
             /\ emitted = IF pendingChats[id] # 0
                          THEN <<Event("pendingRequest", pendingChats[id], "", "", "", "", NoEntry)>>
                          ELSE <<>>

\* the refresh returned the thread the push named, and it was announced
C15_Witness ==
    /\ last.kind = "pendingListed"
    /\ Len(last.entry.payload) = 1
    /\ last.pre.pendingChats[last.task.thread] = 0
    /\ pendingChats[last.task.thread] = Len(heap)
    /\ Len(Emitted({"pendingRequest"})) = 1

\* C16: a thread replace on a cached chat emits callStart(chat) exactly when
\* the calling flag was false before the merge and is true after it,
\* callEnd(chat) exactly when it was true before and is false after, and
\* neither when the flag is as it was.
C16_CallTransitions ==
    CachedThreadReplace =>
        /\ heap[TheRef].calling = TheOp.value.calling
        /\ Emitted({"callStart", "callEnd"}) =
              IF ~OldChat.calling /\ heap[TheRef].calling
              THEN <<Event("callStart", TheRef, "", "", "", "", NoEntry)>>
              ELSE IF OldChat.calling /\ ~heap[TheRef].calling
                   THEN <<Event("callEnd", TheRef, "", "", "", "", NoEntry)>>
                   ELSE <<>>

\* a call that an earlier replace had started was ended by this one
C16_Witness ==
    /\ CachedThreadReplace
    /\ OldChat.calling
    /\ ~heap[TheRef].calling
    /\ Len(Emitted({"callEnd"})) = 1

\* a replace on a message path whose value decodes
IsMessageReplace(data) ==
    /\ data.op = "replace"
    /\ ~matchInboxThreadPath(data.path)
    /\ matchMessagePath(data.path)
    /\ ~JSONparseThrows(data.value)

\* the turn was a live message replace on a chat that was cached
CachedMessageReplace ==
    /\ LiveSingleOp
    /\ IsMessageReplace(TheOp)
    /\ last.pre.chats[PathThreadID(TheOp.path)] # 0

\* the turn completed the chat fetch of a message replace
FetchedMessageReplace ==
    /\ last.kind = "chatFetched"
    /\ last.task.cont = "messageReplace"
    /\ IsMessageReplace(last.task.op)

ReplaceOp == IF last.kind = "chatFetched" THEN last.task.op ELSE TheOp
ReplaceThreadID == PathThreadID(ReplaceOp.path)

LikeEvents == {"likeAdd", "likeRemove"}

\* the requests in flight that a like event waits for
LikeFetches(tasks) == SelectSeq(tasks, LAMBDA task : task.cont \in LikeEvents)

\* C18: a message replace for a message id that is not in the owning chat's
\* message mapping is ignored: no likeAdd or likeRemove is emitted or waited
\* for, and no message is added to the mapping.
C18_UnknownMessageIgnored ==
    (\/ CachedMessageReplace
          /\ ReplaceOp.value.item_id \notin
                MessageIds(last.pre.chats, last.pre.heap, ReplaceThreadID)
     \/ FetchedMessageReplace) =>
        /\ Emitted(LikeEvents) = <<>>
        /\ LikeFetches(inflight) = LikeFetches(last.pre.inflight)
        /\ ReplaceOp.value.item_id \notin MessageIds(chats, heap, ReplaceThreadID)
        /\ OldChatsUntouched

\* a replace for m2 reached a cached chat that holds m1 only
C18_Witness ==
    /\ CachedMessageReplace
    /\ MessageIds(last.pre.chats, last.pre.heap, ReplaceThreadID) = {"m1"}
    /\ ReplaceOp.value.item_id = "m2"
    /\ MessageIds(chats, heap, ReplaceThreadID) = {"m1"}
    /\ Len(emitted) = 1

\* the turn was a live message replace on a message the cached chat holds
KnownMessageReplace ==
    /\ CachedMessageReplace
    /\ TheOp.value.item_id \in MessageIds(last.pre.chats, last.pre.heap, ReplaceThreadID)

ReplaceRef == last.pre.chats[ReplaceThreadID]
LikesBefore == Range(last.pre.heap[ReplaceRef].messages[TheOp.value.item_id].likes)
LikesAfter == Range(heap[ReplaceRef].messages[TheOp.value.item_id].likes)

\* a like event for one of the users is emitted in this turn, or the fetch of
\* one of them that it waits for has been started
LikeSurfaced(name, candidates) ==
    \/ \E i \in 1..Len(emitted) :
          emitted[i].ev = name /\ emitted[i].user \in candidates
    \/ \E i \in 1..Len(inflight) :
          /\ inflight[i].kind = "fetchUser"
          /\ inflight[i].cont = name
          /\ inflight[i].user \in candidates

\* C19: a message replace on a cached message diffs the like lists by user
\* id: when a user's like was there before the merge and is gone after it a
\* likeRemove for such a user is emitted (once the user resolves), and when a
\* like is new a likeAdd is, also when the two lists have the same length.
C19_LikeDiffByMembership ==
    KnownMessageReplace =>
        /\ LikesBefore \ LikesAfter # {} => LikeSurfaced("likeRemove", LikesBefore \ LikesAfter)
        /\ LikesAfter \ LikesBefore # {} => LikeSurfaced("likeAdd", LikesAfter \ LikesBefore)

\* what the code does: the lengths of the two lists decide which diff is made
C19_LikeDiffByLength ==
    KnownMessageReplace =>
        LET before == last.pre.heap[ReplaceRef].messages[TheOp.value.item_id].likes
            after == heap[ReplaceRef].messages[TheOp.value.item_id].likes
        IN /\ after = TheOp.value.likes
           /\ (Len(before) > Len(after) /\ LikesBefore \ LikesAfter # {}) =>
                 LikeSurfaced("likeRemove", LikesBefore \ LikesAfter)
           /\ (Len(after) > Len(before) /\ LikesAfter \ LikesBefore # {}) =>
                 LikeSurfaced("likeAdd", LikesAfter \ LikesBefore)
           /\ Len(before) = Len(after) =>
                 /\ Emitted(LikeEvents) = <<>>
                 /\ LikeFetches(inflight) = LikeFetches(last.pre.inflight)

\* an add or a remove on an admin path
IsAdminOp(data) == data.op \in {"add", "remove"} /\ matchAdminPath(data.path)

\* the turn ran the chat callback of an admin operation: in the turn of the
\* delivery when the chat was cached, in the turn that completed the chat
\* fetch when not
AdminResolved ==
    \/ LiveSingleOp /\ IsAdminOp(TheOp) /\ last.pre.chats[PathThreadID(TheOp.path)] # 0
    \/ last.kind = "chatFetched" /\ last.task.cont \in {"adminAdd", "adminRemove"}

AdminOp == IF last.kind = "chatFetched" THEN last.task.op ELSE TheOp
AdminRef == chats[PathThreadID(AdminOp.path)]
AdminUser == AdminPathUserID(AdminOp.path)
AdminEvent == IF AdminOp.op = "add" THEN "chatAdminAdd" ELSE "chatAdminRemove"
AdminEvents == {"chatAdminAdd", "chatAdminRemove"}

\* the admin list of the resolved chat before the callback
AdminsBefore ==
    IF last.kind = "chatFetched" THEN <<>> ELSE last.pre.heap[AdminRef].adminUserIDs

Rejected == last.kind = "fetchRejected"

\* what a rejection leaves behind: the request is gone and with it the
\* callback that waited for it; nothing is emitted and no cache entry changes
RejectionDropsCallback ==
    /\ emitted = <<>>
    /\ CacheUnchanged
    /\ ready = last.pre.ready
    /\ eventsToReplay = last.pre.eventsToReplay
    /\ Len(inflight) = Len(last.pre.inflight) - 1
    /\ \A i \in 1..Len(inflight) :
          \E j \in 1..Len(last.pre.inflight) : last.pre.inflight[j] = inflight[i]

\* C21: when the fetch of a user or chat that a patch or push refers to
\* rejects, the event that waited for it is never emitted, no error event is
\* emitted, and the engine goes on processing later patches and pushes.
C21_RejectionIsLocal ==
    Rejected => (RejectionDropsCallback /\ alive)

\* what the code guarantees on a rejection: the callback is dropped in silence;
\* whether the process goes on is the runtime's choice
C21_RejectionDropsCallback ==
    Rejected => RejectionDropsCallback

\* an operation that decodes its value (a remove takes the value as it is)
\* and whose value does not decode
BadValueOp(data) ==
    /\ data.op \in {"replace", "add"}
    /\ matchInboxThreadPath(data.path) \/ matchMessagePath(data.path)
    /\ ~matchAdminPath(data.path)
    /\ data.op = "add" => matchMessagePath(data.path)
    /\ JSONparseThrows(data.value)

\* the operations of the delivery whose value decodes, in order
DecodableOps == SelectSeq(TheOps, LAMBDA data : ~BadValueOp(data))

\* the delivery with the operations that do not decode left out
WithoutBadValues ==
    Drain(handleRealtimeReceive(last.pre, last.entry.topic, <<DecodableOps>>))

\* C22: a patch operation whose value is not parseable JSON is absorbed: the
\* delivery mutates the cache and emits the domain events exactly as the same
\* delivery without that operation would, whether the other operations come
\* before or after it, and no error leaves the handler.
C22_BadValueAbsorbed ==
    (LiveBatch /\ \E p \in 1..Len(TheOps) : BadValueOp(TheOps[p])) =>
        /\ heap = WithoutBadValues.heap
        /\ chats = WithoutBadValues.chats
        /\ pendingChats = WithoutBadValues.pendingChats
        /\ users = WithoutBadValues.users
        /\ inflight = WithoutBadValues.inflight
        /\ SelectSeq(emitted, IsDomain) = SelectSeq(WithoutBadValues.emitted, IsDomain)
        /\ alive

\* what the code does with a value that does not decode: the operation itself
\* changes and emits nothing, and the operations before it in the delivery
\* have been applied
C22_BadValueItselfSilent ==
    (LiveBatch /\ \A p \in 1..Len(TheOps) : BadValueOp(TheOps[p])) =>
        /\ CacheUnchanged
        /\ inflight = last.pre.inflight
        /\ Len(emitted) = 1

\* the turn processed deliveries: one delivered live, or the queued ones replayed
Processing ==
    \/ Delivery /\ last.pre.ready
    \/ last.kind = "loginReady"

\* the same turn taken from the same state with no request outstanding
Unstalled ==
    LET free == [last.pre EXCEPT !.inflight = <<>>]
    IN IF last.kind = "loginReady"
       THEN Drain(ReadyAndReplay(free))
       ELSE Drain(ReplayEntry(free, last.entry))

\* C23: a fetch that does not complete delays only its own event: with
\* requests outstanding, a live delivery and a replay are processed exactly as
\* with none outstanding (every operation of the batch, every queued entry),
\* and the outstanding requests go on waiting, untouched.
C23_StalledFetchBlocksNothing ==
    (Processing /\ last.pre.inflight # <<>>) =>
        /\ emitted = Unstalled.emitted
        /\ heap = Unstalled.heap
        /\ chats = Unstalled.chats
        /\ pendingChats = Unstalled.pendingChats
        /\ users = Unstalled.users
        /\ eventsToReplay = <<>>
        /\ inflight = last.pre.inflight \o Unstalled.inflight

\* with a chat fetch outstanding, a delivery started a second chat fetch with
\* its first operation and emitted the event of its second
C23_Witness ==
    /\ last.kind = "realtime"
    /\ last.pre.ready
    /\ Len(last.pre.inflight) = 1
    /\ last.pre.inflight[1].kind = "fetchChat"
    /\ Len(inflight) = 2
    /\ Len(Emitted({"chatNameUpdate"})) = 1

\* C24: a message add for a non-system message that fails the validity
\* predicate still puts the Message in the chat's message mapping and emits
\* no messageCreate; every messageCreate is for a message that passes it.
C24_InvalidStoredSilently ==
    /\ (AddResolved /\ ~isSystemItem(AddOp.value) /\ ~AddOp.value.valid) =>
          /\ chats[AddThread] # 0
          /\ AddOp.value.item_id \in MessageIds(chats, heap, AddThread)
          /\ heap[chats[AddThread]].messages[AddOp.value.item_id] = NewMessage(AddOp.value)
          /\ Emitted({"messageCreate"}) = <<>>
    /\ \A i \in 1..Len(emitted) :
          emitted[i].ev = "messageCreate" =>
              isMessageValid(heap[emitted[i].chat].messages[emitted[i].msg])

\* a message that fails the predicate was stored, unannounced, in a cached
\* chat that already held an announced one
C24_Witness ==
    /\ LiveSingleOp
    /\ IsMessageAdd(TheOp)
    /\ ~TheOp.value.valid
    /\ last.pre.chats[AddThread] # 0
    /\ Cardinality(MessageIds(last.pre.chats, last.pre.heap, AddThread)) = 1
    /\ Cardinality(MessageIds(chats, heap, AddThread)) = 2
    /\ Len(emitted) = 1

\* the turn was realtime or push processing: a delivery, or the completion of
\* a request that a delivery started
EngineTurn ==
    last.kind \in {"realtime", "fbns", "chatFetched", "userFetched", "pendingListed",
                   "fetchRejected"}

\* C25: once a Chat is in the chats cache under an id, realtime and push
\* processing never removes the id and never puts another Chat object in its
\* place: the cache goes on holding the same object.
C25_ChatIdentityStable ==
    EngineTurn =>
        \A t \in ThreadIds : last.pre.chats[t] # 0 => chats[t] = last.pre.chats[t]

\* what the code guarantees: an id that is in the chats cache stays in it
C25_ChatIdsNeverRemoved ==
    \A t \in ThreadIds : last.pre.chats[t] # 0 => chats[t] # 0

\* C26: in every reachable state every id in the pending-chats cache is an id
\* in the chats cache, and the two caches hold the same Chat object under it.
C26_PendingIsViewOfChats ==
    \A t \in ThreadIds : pendingChats[t] # 0 => chats[t] = pendingChats[t]

\* what the code guarantees: the ids of pending-chats are ids of chats
C26_PendingIdsAreChatIds ==
    \A t \in ThreadIds : pendingChats[t] # 0 => chats[t] # 0

\* the members a thread replace brings and the members it takes away
MembersAdded == Range(TheOp.value.users) \ Range(OldChat.users)
MembersRemoved == Range(OldChat.users) \ Range(TheOp.value.users)

C27_RemovalWitness ==
    /\ CachedThreadReplace
    /\ Cardinality(MembersRemoved) = 2
    /\ Emitted({"chatUserRemove"}) # <<>>

\* the raw event of a delivery
RawOf(entry) ==
    Event(IF entry.type = "realtime" THEN "rawRealtime" ELSE "rawFbns",
          0, "", "", "", "", entry)

\* the state of the replay when it comes to its i-th entry
ReplayedBefore(i) ==
    ReplayFrom(Readied(last.pre), SubSeq(last.pre.eventsToReplay, 1, i - 1), 1)

\* C28: live, a realtime delivery emits rawRealtime and a push delivery emits
\* rawFbns exactly once, carrying the raw input and ahead of every other event
\* of the delivery; in a replay each entry's raw event is the first thing its
\* processing emits and is emitted once; a realtime delivery on a topic other
\* than the patch topic emits only rawRealtime and changes no cache entry.
C28_RawOnceAndFirst ==
    /\ (Delivery /\ last.pre.ready) =>
          /\ emitted # <<>>
          /\ emitted[1] = RawOf(last.entry)
          /\ Len(Emitted(RawEvents)) = 1
    /\ last.kind = "loginReady" =>
          \A i \in 1..Len(last.pre.eventsToReplay) :
              LET s == ReplayedBefore(i)
                  entry == last.pre.eventsToReplay[i]
                  after == ReplayEntry(s, entry).emitted
                  own == SubSeq(after, Len(s.emitted) + 1, Len(after))
              IN /\ SubSeq(after, 1, Len(s.emitted)) = s.emitted
                 /\ own # <<>>
                 /\ own[1] = RawOf(entry)
                 /\ Len(SelectSeq(own, IsRaw)) = 1
                 /\ SubSeq(emitted, 1, Len(after)) = after
    /\ (last.kind = "realtime" /\ last.pre.ready /\ last.entry.topic # PatchTopic) =>
          /\ emitted = <<RawOf(last.entry)>>
          /\ CacheUnchanged
          /\ inflight = last.pre.inflight

\* a replay of a delivery on another topic followed by a push of a category
\* without a case of its own: rawRealtime, then rawFbns, then push
C28_Witness ==
    /\ last.kind = "loginReady"
    /\ Len(last.pre.eventsToReplay) = 2
    /\ last.pre.eventsToReplay[1].type = "realtime"
    /\ last.pre.eventsToReplay[1].topic = OtherTopic
    /\ [i \in 1..Len(emitted) |-> emitted[i].ev] =
           <<"connected", "rawRealtime", "rawFbns", "push">>

\* a live delivery on another topic, and a live push followed by its event
C28_LiveOtherTopicWitness ==
    /\ last.kind = "realtime" /\ last.pre.ready /\ last.entry.topic = OtherTopic
    /\ Len(emitted) = 1
C28_LivePushWitness ==
    /\ last.kind = "fbns" /\ last.pre.ready
    /\ [i \in 1..Len(emitted) |-> emitted[i].ev] = <<"rawFbns", "push">>

\* the turn ran the message-add callback on the answer of a thread request
AddFetched == last.kind = "chatFetched" /\ last.task.cont = "messageAdd"

\* C29: when two message adds for a chat that is not cached are processed
\* before either thread request is answered, the Chat in the chats cache holds
\* both messages once both are answered: the answer of a thread request loses
\* none of the messages that the chat cached under a thread id holds, so every
\* message announced by messageCreate stays in the cached chat's mapping.
C29_RacingAddsKeepMessages ==
    AddFetched =>
        \A t \in ThreadIds :
            MessageIds(last.pre.chats, last.pre.heap, t) \subseteq MessageIds(chats, heap, t)

\* what the code guarantees: the message of the answered add is in the chat
\* that is cached under its thread id when the callback has run
C29_AnsweredAddIsCached ==
    (AddFetched /\ ~isSystemItem(last.task.op.value)) =>
        last.task.op.value.item_id \in MessageIds(chats, heap, last.task.thread)

\* C30: for each chat callStart and callEnd alternate: among the call events
\* emitted so far for a thread id, no two in a row are the same.
C30_CallEventsAlternate ==
    \A t \in ThreadIds :
        \A i \in 1..(Len(calls[t]) - 1) : calls[t][i] # calls[t][i + 1]

\* what the code guarantees: the call events emitted for one Chat object in
\* one turn alternate, and each follows a change of that object's call flag
C30_CallEventFollowsFlag ==
    \A i \in 1..Len(emitted) :
        /\ emitted[i].ev = "callStart" => heap[emitted[i].chat].calling \/
              \E j \in (i + 1)..Len(emitted) :
                  emitted[j].ev = "callEnd" /\ emitted[j].chat = emitted[i].chat
        /\ emitted[i].ev = "callEnd" => ~heap[emitted[i].chat].calling \/
              \E j \in (i + 1)..Len(emitted) :
                  emitted[j].ev = "callStart" /\ emitted[j].chat = emitted[i].chat

\* the turn was a step of login before the one that sets ready
LoginBeforeReady == last.kind \in {"loginLoad", "loginRealtime", "loginFail"}

\* C31: during a login the ready flag is set and connected is emitted before
\* any replayed entry is processed: in the turn that makes the client ready
\* connected comes ahead of every rawRealtime, rawFbns and domain event; the
\* steps of login before it emit none of those and leave the queue as it was,
\* and so does a login that fails.
C31_ConnectedBeforeReplay ==
    /\ last.kind = "loginReady" =>
          /\ ready
          /\ emitted # <<>>
          /\ emitted[1] = Event("connected", 0, "", "", "", "", NoEntry)
          /\ Len(Emitted({"connected"})) = 1
          /\ ReplayFrom(Readied(last.pre), last.pre.eventsToReplay, 1).ready
    /\ LoginBeforeReady =>
          /\ \A i \in 1..Len(emitted) : ~IsRaw(emitted[i]) /\ ~IsDomain(emitted[i])
          /\ eventsToReplay = last.pre.eventsToReplay
          /\ ready = last.pre.ready
    /\ last.kind = "loginFail" =>
          /\ emitted = <<>>
          /\ CacheUnchanged
          /\ inflight = last.pre.inflight

\* a login became ready with two entries queued, and connected came first
C31_Witness ==
    /\ last.kind = "loginReady"
    /\ Len(last.pre.eventsToReplay) = 2
    /\ emitted[1].ev = "connected"
    /\ Len(Emitted(RawEvents)) = 2

\* a login failed with an entry queued, and the entry is still queued
C31_FailWitness ==
    /\ last.kind = "loginFail"
    /\ eventsToReplay # <<>>
    /\ ~ready

\* C32: logout resets readiness: every realtime or push event delivered after
\* logout is appended to the replay queue with no emission and no cache
\* change, stays queued in arrival order while the client is logged out, and
\* is processed, in arrival order and exactly once, by the replay of the next
\* login that succeeds, and only by it.
C32_LogoutBuffersUntilLogin ==
    /\ last.kind = "logout" =>
          /\ ~ready
          /\ emitted = <<>>
          /\ CacheUnchanged
          /\ eventsToReplay = last.pre.eventsToReplay
    /\ sinceLogout.out =>
          /\ ~ready
          /\ eventsToReplay = sinceLogout.entries
    /\ (Delivery /\ sinceLogout.out) =>
          /\ eventsToReplay = Append(last.pre.eventsToReplay, last.entry)
          /\ emitted = <<>>
          /\ CacheUnchanged
          /\ inflight = last.pre.inflight
    /\ sinceLogout.replayed =>
          LET raws == Emitted(RawEvents)
          IN /\ last.kind = "loginReady"
             /\ last.pre.eventsToReplay = sinceLogout.entries
             /\ Len(raws) = Len(sinceLogout.entries)
             /\ \A i \in 1..Len(raws) : raws[i] = RawOf(sinceLogout.entries[i])
             /\ eventsToReplay = <<>>
             /\ ready

\* a realtime delivery and then a push were delivered after a logout, and the
\* login that followed has replayed them in that order
C32_Witness ==
    /\ sinceLogout.replayed
    /\ Len(sinceLogout.entries) = 2
    /\ sinceLogout.entries[1].type = "realtime"
    /\ sinceLogout.entries[2].type = "fbns"
    /\ [i \in 1..2 |-> Emitted(RawEvents)[i].ev] = <<"rawRealtime", "rawFbns">>

====
